---- MODULE Spec2Model ----
(***************************************************************************)
(* Voice-assistant front end (Robot_App_Release).                          *)
(*                                                                         *)
(* Part I   AudioRecorder.record_until_silence (src/audio_recorder.py):    *)
(*          the hysteresis endpoint detector, one call, frame by frame.    *)
(*          Time is in milliseconds and advances only inside a frame read  *)
(*          (one chunk of REC_CHUNK samples at REC_SAMPLE_RATE).           *)
(*          Specifications: RecSpec (any frame stream), ScenarioSpec (the  *)
(*          silent-room frame stream of spec.md section 8).                *)
(*                                                                         *)
(* Part II  The running program (src/main.py, src/audio_player.py):        *)
(*          main_thread ("M"), interruption_thread ("I"), main() ("P") and *)
(*          the AudioPlayer worker, sharing SystemState, the microphone    *)
(*          and the player's job queue.  A capture is one call of          *)
(*          record_until_silence: it starts, holds the microphone, and     *)
(*          ends with a buffer or a device error.                          *)
(*          Specifications: Spec, and FairSpec (Spec with every thread     *)
(*          scheduled fairly).                                             *)
(***************************************************************************)
EXTENDS Integers, Sequences, FiniteSets, TLC

VARIABLES
    \* ---- record_until_silence: arguments, locals, device clock ----
    rpc,              \* position: "idle" | "calib" | "main" | "hold" | "done"
    cfg,              \* the call's keyword arguments
    now,              \* time.time(), in ms
    nreads,           \* frames read from self._stream in this call
    calib_end,
    noise_vals,
    ring_pre,
    frames,
    speaking,
    over_count,
    under_count,
    start_time,       \* 0 stands for None (both are falsy in `if start_time`)
    hard_deadline,
    thresholds,       \* [start |-> , end |-> ], scaled by ThrScale(noise_vals)
    hold_blocks,
    hold_i,
    \* ---- SystemState and the module globals of main.py ----
    is_listening,
    is_active,
    is_speaking,
    allow_listening_to_user,
    lock,             \* SystemState.lock: "none" or the thread holding it
    allow_interruption,
    allow_wake_word,
    audio_queue,
    sd_playing,       \* sounddevice is playing (sd.play ... sd.stop)
    \* ---- AudioPlayer ----
    queue,            \* self._queue
    running,          \* self._running
    wpc,              \* position of the worker in _run
    wjob,             \* the worker's local `job`
    current_job,      \* self._current_job is the worker's job (else None)
    wcanceled,        \* canceled event of the worker's job
    last_play_ts,     \* paths with an entry in self._last_play_ts
    \* ---- threads ----
    pc,               \* position of M, I, P
    call,             \* per thread: the calls still to run before its next step
    done_evt,         \* per thread: done event of the job it plays blocking
    cj,               \* per thread: stop_current's local `cj`
    stop_hist,        \* history: the stop_current calls made since the worker took its job
    \* ---- locals of main_thread ----
    is_first_time,
    traceback_bound,  \* the function-local name `traceback` has been imported
    m_exc,            \* exception that ended main_thread ("none" while alive)
    audio_wav,
    user_message,
    handled,          \* should_continue, local_response, pass_text
    prompt_text,
    \* ---- locals of interruption_thread ----
    audio_buf,
    \* ---- the self-test loops of utilities.py and local_commands.py ----
    fn_pc,            \* position of the loop: "off", the function to call, "done"
    fn_in,            \* the test case the loop is at
    fn_out            \* what the call returned

recVars == <<rpc, cfg, now, nreads, calib_end, noise_vals, ring_pre, frames,
             speaking, over_count, under_count, start_time, hard_deadline,
             thresholds, hold_blocks, hold_i>>

thrVars == <<is_listening, is_active, is_speaking, allow_listening_to_user,
             lock, allow_interruption, allow_wake_word, audio_queue,
             sd_playing, queue, running, wpc, wjob, current_job, wcanceled,
             last_play_ts, pc, call, done_evt, cj, stop_hist, is_first_time,
             traceback_bound, m_exc, audio_wav, user_message, handled,
             prompt_text, audio_buf>>

fnVars == <<fn_pc, fn_in, fn_out>>

vars == <<recVars, thrVars, fnVars>>

Max(a, b) == IF a >= b THEN a ELSE b

\* the elements of a sequence
Range(s) == {s[i] : i \in 1..Len(s)}

RECURSIVE SumSeq(_)
SumSeq(s) == IF s = <<>> THEN 0 ELSE Head(s) + SumSeq(Tail(s))

\* ---- values of the parts that are not running ----
Threads == {"M", "I", "P"}

\* the AudioJob(path="") that shutdown() enqueues; also "no job"
NoJob == [path |-> "", blocking |-> FALSE, owner |-> "-"]

\* history of stop_current against the job the worker holds: `held` are the
\* threads whose running stop_current() was called while the worker held
\* this job (taken at `self._queue.get`), `returned` tells that one of those
\* calls has returned
NoStops == [held |-> {}, returned |-> FALSE]

NoHandled == [should_continue |-> FALSE, local_response |-> FALSE, pass_text |-> <<>>]

\* the self-test loops at rest
FnIdle ==
    /\ fn_pc = "off"
    /\ fn_in = <<>>
    /\ fn_out = <<>>

\* Part II at rest (while a recorder specification runs)
ThreadsIdle ==
    /\ is_listening = TRUE
    /\ is_active = TRUE
    /\ is_speaking = FALSE
    /\ allow_listening_to_user = FALSE
    /\ lock = "none"
    /\ allow_interruption = FALSE
    /\ allow_wake_word = FALSE
    /\ audio_queue = <<>>
    /\ sd_playing = FALSE
    /\ queue = <<>>
    /\ running = FALSE
    /\ wpc = "w_off"
    /\ wjob = NoJob
    /\ current_job = FALSE
    /\ wcanceled = FALSE
    /\ last_play_ts = {}
    /\ pc = [t \in Threads |-> "off"]
    /\ call = [t \in Threads |-> <<>>]
    /\ done_evt = [t \in Threads |-> FALSE]
    /\ cj = [t \in Threads |-> "None"]
    /\ stop_hist = NoStops
    /\ is_first_time = TRUE
    /\ traceback_bound = FALSE
    /\ m_exc = "none"
    /\ audio_wav = [riff |-> FALSE, stt |-> [ok |-> FALSE, text |-> <<>>]]
    /\ user_message = <<>>
    /\ handled = NoHandled
    /\ prompt_text = <<>>
    /\ audio_buf = [riff |-> FALSE, stt |-> [ok |-> FALSE, text |-> <<>>]]

\* Part I at rest (while the program specification runs)
RecIdle ==
    /\ rpc = "idle"
    /\ cfg = [max_duration |-> 0]
    /\ now = 0
    /\ nreads = 0
    /\ calib_end = 0
    /\ noise_vals = <<>>
    /\ ring_pre = <<>>
    /\ frames = <<>>
    /\ speaking = FALSE
    /\ over_count = 0
    /\ under_count = 0
    /\ start_time = 0
    /\ hard_deadline = 0
    /\ thresholds = [start |-> 0, end |-> 0]
    /\ hold_blocks = 0
    /\ hold_i = 0

(***************************************************************************)
(* Part I.  record_until_silence                                           *)
(***************************************************************************)

\* Config.REC_SAMPLE_RATE, REC_CHUNK, REC_WIDTH, REC_CHANNELS
rate == 16000
chunk == 256
width == 2
channels == 1

\* the reading of time.time() when record_until_silence is called (ms)
Epoch == 1000

\* one blocking self._stream.read(self.chunk) lasts chunk/rate seconds
FrameMs == (chunk * 1000) \div rate

bytes_per_frame == width * channels

\* ---- bounds of the explored inputs (in frames) ----
MaxCalibFrames == 2
MaxDurFrames == 4
MaxPreRollFrames == 2
MaxHoldFrames == 2
MaxCountFrames == 2

\* rms values a frame can have: below both absolute floors, between them,
\* above the start floor
Energies == {30, 120, 200}

\* rms values of the ambient noise met during calibration
CalibEnergies == {30, 200}

\* pre_roll_blocks = max(1, pre_roll_bytes // (chunk * bytes_per_frame))
pre_roll_blocks_clamp_two(pre_roll_ms) ==
    Max(2, (((rate * pre_roll_ms) \div 1000) * bytes_per_frame)
               \div (chunk * bytes_per_frame))

pre_roll_blocks(pre_roll_ms) ==
    Max(1, (((rate * pre_roll_ms) \div 1000) * bytes_per_frame)
               \div (chunk * bytes_per_frame))

\* collections.deque(maxlen=n).append(x): the oldest element falls out
deque_append_keep_oldest(ring, x, maxlen) ==
    IF Len(ring) < maxlen THEN Append(ring, x) ELSE ring

deque_append(ring, x, maxlen) ==
    IF Len(ring) < maxlen THEN Append(ring, x)
    ELSE Append(Tail(ring), x)

\* thresholds are kept as integers: every threshold and every rms compared
\* with it is multiplied by ThrScale = 100 * max(1, len(noise_vals))
ThrScale(nv) == 100 * Max(1, Len(nv))

\* noise_floor = (sum / max(1, len)) if noise_vals else 50, times ThrScale/100
noise_floor_scaled(nv) == IF nv # <<>> THEN SumSeq(nv) ELSE 50

\* start_threshold = max(150, noise_floor * threshold_boost)
start_threshold(nv, boost) ==
    Max(150 * ThrScale(nv), noise_floor_scaled(nv) * boost * 100)

\* end_threshold = max(100, noise_floor * (threshold_boost * 0.55))
end_threshold_swapped(nv, boost) ==
    Max(100 * ThrScale(nv), noise_floor_scaled(nv) * boost * 155)

end_threshold(nv, boost) ==
    Max(100 * ThrScale(nv), noise_floor_scaled(nv) * boost * 55)

\* long_enough = (time.time() - start_time) >= min_speech_after_start
\*               if start_time else False
long_enough_unguarded(t, st, min_speech) == st # 0

long_enough(t, st, min_speech) ==
    IF st # 0 THEN (t - st) >= min_speech ELSE FALSE

\* hold_blocks = max(1, hold_bytes // (chunk * bytes_per_frame))
hold_blocks_of(post_silence_hold) ==
    Max(1, (((rate * post_silence_hold) \div 1000) * bytes_per_frame)
               \div (chunk * bytes_per_frame))

\* frames.append(data) / frames.append(extra)
frames_append_twice(fr, f) == Append(Append(fr, f), f)

frames_append_speech_only(fr, f) == IF speaking THEN Append(fr, f) ELSE fr

frames_append(fr, f) == Append(fr, f)

\* frames.extend(list(ring_pre))
seed_pre_roll_dropped(fr, ring) == fr

seed_pre_roll(fr, ring) == fr \o ring

\* a frame as read from the stream: its position in the stream and its rms
Frame(n, e) == [n |-> n, rms |-> e]

\* the keyword arguments explored (durations in ms)
Configs ==
    [ max_duration           : {0} \cup {FrameMs * k - 8 : k \in {2, MaxDurFrames}},
      noise_calib_duration   : {-8, 0} \cup {FrameMs * MaxCalibFrames - 8},
      start_frames           : 1..MaxCountFrames,
      end_frames             : 1..MaxCountFrames,
      post_silence_hold      : {0, FrameMs * MaxHoldFrames + 8},
      pre_roll_ms            : {0, 10, FrameMs * MaxPreRollFrames},
      min_speech_after_start : {0, 20},
      threshold_boost        : {0, 2} ]

RecStart(c) ==
    /\ rpc = "calib"
    /\ cfg = c
    /\ now = Epoch
    /\ nreads = 0
    /\ calib_end = Epoch + Max(0, c.noise_calib_duration)
    /\ noise_vals = <<>>
    /\ ring_pre = <<>>
    /\ frames = <<>>
    /\ speaking = FALSE
    /\ over_count = 0
    /\ under_count = 0
    /\ start_time = 0
    /\ hard_deadline = 0
    /\ thresholds = [start |-> 0, end |-> 0]
    /\ hold_blocks = 0
    /\ hold_i = 0
    /\ ThreadsIdle
    /\ FnIdle

RecInit == \E c \in Configs : RecStart(c)

\* ---- 1) noise calibration: one pass of `while time.time() < calib_end` ----
CalibRead(e) ==
    /\ rpc = "calib"
    /\ now < calib_end
    /\ now' = now + FrameMs
    /\ nreads' = nreads + 1
    /\ noise_vals' = Append(noise_vals, e)
    /\ ring_pre' = deque_append(ring_pre, Frame(nreads + 1, e),
                                pre_roll_blocks(cfg.pre_roll_ms))
    /\ UNCHANGED <<rpc, cfg, calib_end, frames, speaking, over_count,
                   under_count, start_time, hard_deadline, thresholds,
                   hold_blocks, hold_i>>
    /\ UNCHANGED <<thrVars, fnVars>>

\* ---- calibration over: thresholds, state tracking, deadline, pre-roll seed ----
CalibEnd ==
    /\ rpc = "calib"
    /\ ~(now < calib_end)
    /\ thresholds' = [start |-> start_threshold(noise_vals, cfg.threshold_boost),
                      end   |-> end_threshold(noise_vals, cfg.threshold_boost)]
    /\ speaking' = FALSE
    /\ over_count' = 0
    /\ under_count' = 0
    /\ start_time' = 0
    /\ hard_deadline' = now + cfg.max_duration
    /\ frames' = seed_pre_roll(frames, ring_pre)
    /\ rpc' = "main"
    /\ UNCHANGED <<cfg, now, nreads, calib_end, noise_vals, ring_pre,
                   hold_blocks, hold_i>>
    /\ UNCHANGED <<thrVars, fnVars>>

\* ---- 3) main loop: the deadline test at the top of `while True` ----
Deadline ==
    /\ rpc = "main"
    /\ now >= hard_deadline
    /\ rpc' = "done"
    /\ UNCHANGED <<cfg, now, nreads, calib_end, noise_vals, ring_pre, frames,
                   speaking, over_count, under_count, start_time,
                   hard_deadline, thresholds, hold_blocks, hold_i>>
    /\ UNCHANGED <<thrVars, fnVars>>

\* a counter that a frame below start_threshold leaves as it is
over_count_kept(count, over) == IF over THEN count + 1 ELSE count

\* not speaking: `over_count += 1` if rms >= start_threshold, else
\* `over_count = 0`
over_count_after(count, over) == IF over THEN count + 1 ELSE 0

\* a counter that a frame at or above end_threshold leaves as it is
under_count_kept(count, under) == IF under THEN count + 1 ELSE count

\* speaking: `under_count += 1` if rms < end_threshold, else
\* `under_count = 0`
under_count_after(count, under) == IF under THEN count + 1 ELSE 0

\* ---- 3) main loop: one pass that reads a frame ----
MainRead(e) ==
    /\ rpc = "main"
    /\ ~(now >= hard_deadline)
    /\ LET t    == now + FrameMs
           rmsS == e * ThrScale(noise_vals)
           oc   == over_count_after(over_count, rmsS >= thresholds.start)
           uc   == under_count_after(under_count, rmsS < thresholds.end)
       IN /\ now' = t
          /\ nreads' = nreads + 1
          /\ frames' = frames_append(frames, Frame(nreads + 1, e))
          /\ IF ~speaking
             THEN /\ over_count' = oc
                  /\ IF rmsS >= thresholds.start /\ oc >= cfg.start_frames
                     THEN /\ speaking' = TRUE
                          /\ start_time' = t
                          /\ under_count' = 0
                     ELSE UNCHANGED <<speaking, start_time, under_count>>
                  /\ UNCHANGED <<rpc, hold_blocks, hold_i>>
             ELSE /\ under_count' = uc
                  /\ UNCHANGED <<over_count, speaking, start_time>>
                  /\ IF long_enough(t, start_time, cfg.min_speech_after_start)
                        /\ uc >= cfg.end_frames
                     THEN /\ hold_blocks' = hold_blocks_of(cfg.post_silence_hold)
                          /\ hold_i' = 0
                          /\ rpc' = "hold"
                     ELSE UNCHANGED <<rpc, hold_blocks, hold_i>>
    /\ UNCHANGED <<cfg, calib_end, noise_vals, ring_pre, hard_deadline,
                   thresholds>>
    /\ UNCHANGED <<thrVars, fnVars>>

\* ---- post-silence hold: one pass of `for _ in range(hold_blocks)` ----
HoldRead(e) ==
    /\ rpc = "hold"
    /\ hold_i < hold_blocks
    /\ ~(now >= hard_deadline)
    /\ now' = now + FrameMs
    /\ nreads' = nreads + 1
    /\ frames' = frames_append(frames, Frame(nreads + 1, e))
    /\ hold_i' = hold_i + 1
    /\ UNCHANGED <<rpc, cfg, calib_end, noise_vals, ring_pre, speaking,
                   over_count, under_count, start_time, hard_deadline,
                   thresholds, hold_blocks>>
    /\ UNCHANGED <<thrVars, fnVars>>

\* ---- the hold loop ends (range exhausted or deadline), then `break` ----
HoldEnd ==
    /\ rpc = "hold"
    /\ (hold_i >= hold_blocks \/ now >= hard_deadline)
    /\ rpc' = "done"
    /\ UNCHANGED <<cfg, now, nreads, calib_end, noise_vals, ring_pre, frames,
                   speaking, over_count, under_count, start_time,
                   hard_deadline, thresholds, hold_blocks, hold_i>>
    /\ UNCHANGED <<thrVars, fnVars>>

\* a read wrapped in a handler that leaves the loops and returns the frames
\* read so far
after_read_error_swallowed(phase) == "done"

\* where record_until_silence is after self._stream.read raised in `phase`:
\* none of the three reads is inside a try, the exception leaves the call
after_read_error(phase) == "raised"

\* ---- self._stream.read(self.chunk, ...) raises: in the calibration
\* loop, in the main loop, in the post-silence hold ----
ReadFails ==
    /\ \/ rpc = "calib" /\ now < calib_end
       \/ rpc = "main" /\ ~(now >= hard_deadline)
       \/ rpc = "hold" /\ hold_i < hold_blocks /\ ~(now >= hard_deadline)
    /\ rpc' = after_read_error(rpc)
    /\ UNCHANGED <<cfg, now, nreads, calib_end, noise_vals, ring_pre, frames,
                   speaking, over_count, under_count, start_time,
                   hard_deadline, thresholds, hold_blocks, hold_i>>
    /\ UNCHANGED <<thrVars, fnVars>>

\* a recorder that returns nothing unless speech was detected
returned_speech_only == IF speaking THEN frames ELSE <<>>

\* return b"".join(frames) if frames else b""
returned == frames

RecNext ==
    \/ \E e \in CalibEnergies : CalibRead(e)
    \/ CalibEnd
    \/ Deadline
    \/ \E e \in Energies : MainRead(e)
    \/ \E e \in Energies : HoldRead(e)
    \/ HoldEnd
    \/ ReadFails

RecSpec == RecInit /\ [][RecNext]_vars

(***************************************************************************)
(* The silent-room frame stream of spec.md section 8: ambient noise at     *)
(* rms 50 during calibration, then 3 frames at 40, 5 at 200 and 15 at 30;  *)
(* whatever the device delivers afterwards.                                *)
(***************************************************************************)
ScenarioRuns == << [n |-> 3, rms |-> 40], [n |-> 5, rms |-> 200],
                  [n |-> 15, rms |-> 30] >>

ScenarioQuiet == ScenarioRuns[1].n
ScenarioLoud == ScenarioRuns[2].n
ScenarioTrail == ScenarioRuns[3].n

ScenarioFrames == ScenarioQuiet + ScenarioLoud + ScenarioTrail

\* rms of the k-th frame read by the main loop
ScenarioEnergy(k) ==
    IF k <= ScenarioQuiet THEN ScenarioRuns[1].rms
    ELSE IF k <= ScenarioQuiet + ScenarioLoud THEN ScenarioRuns[2].rms
    ELSE ScenarioRuns[3].rms

ScenarioConfigs ==
    [ max_duration           : {FrameMs * 6, FrameMs * ScenarioFrames + 24, 25000},
      noise_calib_duration   : {0, FrameMs, FrameMs * MaxCalibFrames},
      start_frames           : {3},
      end_frames             : {ScenarioTrail},
      post_silence_hold      : {0, FrameMs * MaxHoldFrames + 8},
      pre_roll_ms            : {0, FrameMs, FrameMs * MaxPreRollFrames},
      min_speech_after_start : {0},
      threshold_boost        : {2} ]

ScenarioInit == \E c \in ScenarioConfigs : RecStart(c)

ScenarioNext ==
    \/ CalibRead(50)
    \/ CalibEnd
    \/ Deadline
    \/ (nreads - Len(noise_vals) < ScenarioFrames
          /\ MainRead(ScenarioEnergy(nreads - Len(noise_vals) + 1)))
    \/ \E e \in CalibEnergies : HoldRead(e)
    \/ HoldEnd

ScenarioSpec == ScenarioInit /\ [][ScenarioNext]_vars

(***************************************************************************)
(* Part II.  The running program                                           *)
(***************************************************************************)

\* AudioPlayer._queue = Queue(maxsize=8)
QueueMax == 8

\* main_thread: `listening = True`, never assigned again
listening == TRUE

\* clips of Resources/voice_msgs handed to play_async (they alone are
\* looked up in _last_play_ts, by _debounced)
AsyncPaths == {"thinking.wav", "got_it.wav"}

\* AudioJob(path, blocking); owner is the thread holding job.done
Job(path, blocking, owner) ==
    [path |-> path, blocking |-> blocking, owner |-> owner]

\* ---- text, character by character ----
Letters == {"a", "b", "c", "d", "e", "f", "g", "h", "i", "j", "k", "l", "m",
            "n", "o", "p", "q", "r", "s", "t", "u", "v", "w", "x", "y", "z"}

\* str.lower on the capitals that the texts below are written with
Capitals == [Z |-> "z", N |-> "n", E |-> "e", C |-> "c", D |-> "d", H |-> "h"]

Whitespace == {" "}

\* the class [\s,:.\-!?] that ends _EN_WAKE_REGEX (its Arabic comma is left
\* out: the texts below are ASCII)
WakeTrail == Whitespace \cup {",", ":", ".", "-", "!", "?"}

lower(text) ==
    [i \in 1..Len(text) |->
        IF text[i] \in DOMAIN Capitals THEN Capitals[text[i]] ELSE text[i]]

RECURSIVE lstrip(_)
lstrip(text) ==
    IF text # <<>> /\ Head(text) \in Whitespace THEN lstrip(Tail(text))
    ELSE text

RECURSIVE rstrip(_)
rstrip(text) ==
    IF text # <<>> /\ text[Len(text)] \in Whitespace
    THEN rstrip(SubSeq(text, 1, Len(text) - 1))
    ELSE text

\* str.strip
strip(text) == rstrip(lstrip(text))

\* text[p:] begins with w
StartsWith(text, p, w) ==
    /\ p + Len(w) - 1 <= Len(text)
    /\ SubSeq(text, p, p + Len(w) - 1) = w

\* w in text
Contains(text, w) == \E p \in 1..Len(text) : StartsWith(text, p, w)

\* where a greedy run of characters of S that begins at p ends (the index
\* after its last character)
RECURSIVE RunEnd(_, _, _)
RunEnd(text, p, S) ==
    IF p <= Len(text) /\ text[p] \in S THEN RunEnd(text, p + 1, S) ELSE p

\* WakeWordDetector.en_wake_exact
EN_WAKE_EXACT ==
    { <<"z", "i", "k", "o">>, <<"z", "i", "c", "o">>,
      <<"z", "e", "e", "k", "o">>, <<"z", "e", "e", "c", "o">>,
      <<"z", "i", "k", "k", "o">>, <<"z", "e", "i", "k", "o">>,
      <<"z", "y", "k", "o">>, <<"z", "e", "k", "o">>,
      <<"d", "z", "i", "k", "o">>, <<"d", "i", "c", "o">>,
      <<"z", "i", "k", "a">>, <<"n", "i", "c", "o">>,
      <<"n", "i", "k", "o">>, <<"e", "c", "h", "o">> }

\* WakeWordDetector.en_wake_deny: every entry of the tuple is commented out
EN_WAKE_DENY == {}

\* the alternatives of the optional group (?:hey|hi|hello\s+) of
\* _EN_WAKE_REGEX in the order they are tried, each with the least number of
\* whitespace characters that must follow it: \s+ belongs to `hello` alone
EN_WAKE_GREETINGS ==
    << [word |-> <<"h", "e", "y">>, spaces |-> 0],
       [word |-> <<"h", "i">>, spaces |-> 0],
       [word |-> <<"h", "e", "l", "l", "o">>, spaces |-> 1] >>

\* where the alternative g of the group ends when tried at p (0: it does
\* not match there)
GreetingEnd(text, p, g) ==
    IF ~StartsWith(text, p, g.word) THEN 0
    ELSE LET q == p + Len(g.word)
             e == RunEnd(text, q, Whitespace)
         IN IF g.spaces = 0 THEN q
            ELSE IF e - q >= g.spaces THEN e ELSE 0

\* _EN_WAKE_REGEX.match(text), ^\s*(?:hey|hi|hello\s+)?([a-z]+)[\s,:.\-!?]*
\* as the backtracking matcher runs it: after the leading whitespace, the
\* first alternative of the group that is followed by a letter, else no
\* group; then the longest run of letters (group 1), then the longest run of
\* the trailing class.  `end` is the index after the match.
EN_WAKE_REGEX_match(text) ==
    LET p == RunEnd(text, 1, Whitespace)
        letter_at(q) == q >= 1 /\ q <= Len(text) /\ text[q] \in Letters
        ends == [k \in 1..Len(EN_WAKE_GREETINGS) |->
                    GreetingEnd(text, p, EN_WAKE_GREETINGS[k])]
        taken == {k \in DOMAIN ends : letter_at(ends[k])}
        start == IF taken # {}
                 THEN ends[CHOOSE k \in taken : \A j \in taken : k <= j]
                 ELSE p
    IN IF ~letter_at(start)
       THEN [matched |-> FALSE, group1 |-> <<>>, end |-> 1]
       ELSE LET e == RunEnd(text, start, Letters)
            IN [matched |-> TRUE,
                group1 |-> SubSeq(text, start, e - 1),
                end |-> RunEnd(text, e, WakeTrail)]

\* WakeWordDetector._is_english_wake_token
is_english_wake_token(tok) ==
    IF Len(tok) < 2 THEN FALSE
    ELSE IF tok \in EN_WAKE_DENY THEN FALSE
    ELSE IF tok \in EN_WAKE_EXACT THEN TRUE
    ELSE IF tok[1] \notin {"z", "d"} THEN FALSE
    ELSE Contains(tok, <<"i", "k", "o">>) \/ Contains(tok, <<"i", "c", "o">>)

\* a detector that takes any text as woken, the whole text as the remainder
extract_after_wake_any(user_text) == [has_wake |-> TRUE, remaining |-> user_text]

\* WakeWordDetector.extract_after_wake: (has_wake, remainder), for ASCII
\* text, which _AR_WAKE_REGEX never matches
extract_after_wake(user_text) ==
    LET text == strip(user_text)
        m_en == EN_WAKE_REGEX_match(lower(text))
    IN IF text = <<>> THEN [has_wake |-> FALSE, remaining |-> <<>>]
       ELSE IF m_en.matched /\ is_english_wake_token(m_en.group1)
       THEN [has_wake |-> TRUE,
             remaining |-> strip(SubSeq(text, m_en.end, Len(text)))]
       ELSE [has_wake |-> FALSE, remaining |-> <<>>]

\* LocalCommandHandler.QUESTION_HINTS_EN
QUESTION_HINTS_EN ==
    { <<"a", "r", "e">>,
      <<"c", "a", "n">>,
      <<"c", "o", "u", "l", "d">>,
      <<"d", "o">>,
      <<"d", "o", "e", "s">>,
      <<"e", "x", "p", "l", "a", "i", "n">>,
      <<"h", "e", "l", "p">>,
      <<"h", "o", "w">>,
      <<"i", "s">>,
      <<"p", "l", "e", "a", "s", "e">>,
      <<"s", "h", "o", "u", "l", "d">>,
      <<"s", "h", "o", "w">>,
      <<"t", "e", "l", "l">>,
      <<"w", "h", "a", "t">>,
      <<"w", "h", "e", "n">>,
      <<"w", "h", "e", "r", "e">>,
      <<"w", "h", "i", "c", "h">>,
      <<"w", "h", "o">>,
      <<"w", "h", "y">>,
      <<"w", "o", "u", "l", "d">> }

\* \w, for lower-case ASCII text
WordChars ==
    Letters \cup {"0", "1", "2", "3", "4", "5", "6", "7", "8", "9", "_"}

\* _SPACES_REGEX.sub(' ', text): every run of whitespace becomes one space
RECURSIVE collapse_spaces(_)
collapse_spaces(text) ==
    IF text = <<>> THEN <<>>
    ELSE IF Head(text) \in Whitespace
    THEN <<" ">> \o collapse_spaces(lstrip(text))
    ELSE <<Head(text)>> \o collapse_spaces(Tail(text))

\* LocalCommandHandler.normalize_text: lower and strip, every run of
\* characters that are neither \w nor \s becomes a space, runs of whitespace
\* become one space, strip
normalize_text(text) ==
    LET low == strip(lower(text))
        sub == [i \in 1..Len(low) |->
                   IF low[i] \in WordChars \cup Whitespace THEN low[i] ELSE " "]
    IN strip(collapse_spaces(sub))

\* \b at index p of text (between text[p-1] and text[p])
WordBoundary(text, p) ==
    LET word_at(i) == i >= 1 /\ i <= Len(text) /\ text[i] \in WordChars
    IN word_at(p - 1) # word_at(p)

\* where the words of a phrase, \s+ between them, end when matched at p
\* (0: they do not match there)
RECURSIVE WordsEnd(_, _, _)
WordsEnd(text, p, words) ==
    IF ~StartsWith(text, p, Head(words)) THEN 0
    ELSE LET q == p + Len(Head(words))
             e == RunEnd(text, q, Whitespace)
         IN IF Len(words) = 1 THEN q
            ELSE IF e = q THEN 0
            ELSE WordsEnd(text, e, Tail(words))

\* the pattern compile_pattern_set builds for a phrase, \b word \s+ word \b,
\* matched at p: where the match ends (0: no match there)
PhraseEnd(text, p, phrase) ==
    LET e == WordsEnd(text, p, phrase)
    IN IF e # 0 /\ WordBoundary(text, p) /\ WordBoundary(text, e) THEN e ELSE 0

\* LocalCommandHandler._compile_patterns: the phrases behind each name, a
\* phrase being the sequence of its words (phrase.lower().strip().split());
\* these are the English lists (the Arabic lists match no ASCII text)
Patterns ==
    [
     \* GREETING_EN
     greeting |->
       { << <<"g", "o", "o", "d">>, <<"a", "f", "t", "e", "r", "n", "o", "o", "n">> >>,
         << <<"g", "o", "o", "d">>, <<"e", "v", "e", "n", "i", "n", "g">> >>,
         << <<"g", "o", "o", "d">>, <<"m", "o", "r", "n", "i", "n", "g">> >>,
         << <<"h", "e", "l", "l", "o">> >>,
         << <<"h", "o", "w", "d", "y">> >>,
         << <<"h", "e", "y">> >>,
         << <<"h", "i">> >> },
     \* GOODBYE_EN
     goodbye |->
       { << <<"t", "a", "l", "k">>, <<"t", "o">>, <<"y", "o", "u">>, <<"l", "a", "t", "e", "r">> >>,
         << <<"c", "a", "t", "c", "h">>, <<"y", "o", "u">>, <<"l", "a", "t", "e", "r">> >>,
         << <<"g", "o", "o", "d">>, <<"n", "i", "g", "h", "t">> >>,
         << <<"g", "o", "o", "d", "b", "y", "e">> >>,
         << <<"s", "e", "e">>, <<"y", "o", "u">> >>,
         << <<"b", "y", "e">> >> },
     \* THANK_YOU_EN
     thank_you |->
       { << <<"t", "h", "a", "n", "k">>, <<"y", "o", "u">>, <<"v", "e", "r", "y">>, <<"m", "u", "c", "h">> >>,
         << <<"a", "p", "p", "r", "e", "c", "i", "a", "t", "e">>, <<"i", "t">> >>,
         << <<"t", "h", "a", "n", "k">>, <<"y", "o", "u">> >>,
         << <<"t", "h", "a", "n", "k", "s">> >>,
         << <<"t", "h", "x">> >> },
     \* TIME_EN
     time |->
       { << <<"t", "e", "l", "l">>, <<"m", "e">>, <<"t", "h", "e">>, <<"t", "i", "m", "e">> >>,
         << <<"w", "h", "a", "t">>, <<"t", "i", "m", "e">>, <<"i", "s">>, <<"i", "t">> >>,
         << <<"w", "h", "a", "t", "'", "s">>, <<"t", "h", "e">>, <<"t", "i", "m", "e">> >>,
         << <<"c", "u", "r", "r", "e", "n", "t">>, <<"t", "i", "m", "e">> >>,
         << <<"t", "i", "m", "e">>, <<"n", "o", "w">> >> },
     \* DATE_EN
     date |->
       { << <<"w", "h", "a", "t">>, <<"d", "a", "t", "e">>, <<"i", "s">>, <<"i", "t">> >>,
         << <<"w", "h", "a", "t", "'", "s">>, <<"t", "h", "e">>, <<"d", "a", "t", "e">> >>,
         << <<"w", "h", "a", "t">>, <<"d", "a", "y">>, <<"i", "s">>, <<"i", "t">> >>,
         << <<"t", "o", "d", "a", "y", "'", "s">>, <<"d", "a", "t", "e">> >> },
     \* PAUSE_EN
     pause |->
       { << <<"s", "t", "o", "p">>, <<"l", "i", "s", "t", "e", "n", "i", "n", "g">> >>,
         << <<"g", "o">>, <<"t", "o">>, <<"s", "l", "e", "e", "p">> >>,
         << <<"s", "l", "e", "e", "p">>, <<"m", "o", "d", "e">> >>,
         << <<"s", "t", "a", "n", "d", "b", "y">> >>,
         << <<"c", "a", "n", "c", "e", "l">> >>,
         << <<"e", "n", "o", "u", "g", "h">> >>,
         << <<"a", "b", "o", "r", "t">> >>,
         << <<"p", "a", "u", "s", "e">> >>,
         << <<"e", "x", "i", "t">> >>,
         << <<"h", "a", "l", "t">> >>,
         << <<"q", "u", "i", "t">> >>,
         << <<"r", "e", "s", "t">> >>,
         << <<"s", "t", "o", "p">> >> },
     \* RESUME_EN
     resume |->
       { << <<"s", "t", "a", "r", "t">>, <<"l", "i", "s", "t", "e", "n", "i", "n", "g">> >>,
         << <<"a", "r", "e">>, <<"y", "o", "u">>, <<"t", "h", "e", "r", "e">> >>,
         << <<"c", "o", "m", "e">>, <<"b", "a", "c", "k">> >>,
         << <<"w", "a", "k", "e">>, <<"u", "p">> >>,
         << <<"r", "e", "s", "u", "m", "e">> >> },
     \* HOW_ARE_YOU_EN
     how_are_you |->
       { << <<"h", "o", "w", "'", "s">>, <<"i", "t">>, <<"g", "o", "i", "n", "g">> >>,
         << <<"h", "o", "w">>, <<"d", "o">>, <<"y", "o", "u">>, <<"d", "o">> >>,
         << <<"h", "o", "w">>, <<"a", "r", "e">>, <<"y", "o", "u">> >>,
         << <<"w", "h", "a", "t", "'", "s">>, <<"u", "p">> >>,
         << <<"y", "o", "u">>, <<"o", "k", "a", "y">> >> },
     \* HELP_EN
     help |->
       { << <<"y", "o", "u", "r">>, <<"c", "a", "p", "a", "b", "i", "l", "i", "t", "i", "e", "s">> >>,
         << <<"w", "h", "a", "t">>, <<"c", "a", "n">>, <<"y", "o", "u">>, <<"d", "o">> >>,
         << <<"h", "o", "w">>, <<"t", "o">>, <<"u", "s", "e">> >>,
         << <<"c", "o", "m", "m", "a", "n", "d", "s">> >>,
         << <<"h", "e", "l", "p">> >> } ]

\* LocalCommandHandler.has_pattern: regex.search on the normalized text
has_pattern(text, pattern_name) ==
    LET norm_text == normalize_text(text)
    IN \E phrase \in Patterns[pattern_name] :
          \E p \in 1..Len(norm_text) : PhraseEnd(norm_text, p, phrase) # 0

\* str.split(), the words as they are written
RECURSIVE split(_)
split(text) ==
    LET t == lstrip(text)
        e == RunEnd(t, 1, {c \in Range(t) : c \notin Whitespace})
    IN IF t = <<>> THEN <<>>
       ELSE <<SubSeq(t, 1, e - 1)>> \o split(SubSeq(t, e, Len(t)))

\* LocalCommandHandler.split_greeting_and_remainder: regex.match on the
\* normalized text, the longer phrases first in the alternation
split_greeting_and_remainder(text) ==
    LET norm == normalize_text(text)
        ends == {PhraseEnd(norm, 1, phrase) : phrase \in Patterns.greeting} \ {0}
        end == CHOOSE e \in ends : \A d \in ends : d <= e
    IN IF ends = {}
       THEN [found |-> FALSE, greeting_phrase |-> <<>>, remainder |-> norm]
       ELSE [found |-> TRUE, greeting_phrase |-> SubSeq(norm, 1, end - 1),
             remainder |-> strip(SubSeq(norm, end, Len(norm)))]

\* LocalCommandHandler.looks_like_question_or_command (no hint of
\* QUESTION_HINTS_AR occurs in ASCII text)
looks_like_question_or_command(text) ==
    IF text = <<>> THEN FALSE
    ELSE IF "?" \in Range(text) THEN TRUE
    ELSE IF Len(split(text)) >= 2 THEN TRUE
    ELSE \E word \in Range(split(lower(text))) : word \in QUESTION_HINTS_EN

\* what handle returns
Returned(should_continue, local_response, action, pass_text) ==
    [should_continue |-> should_continue, local_response |-> local_response,
     action |-> action, pass_text |-> pass_text]

\* LocalCommandHandler.handle(text) of a handler whose _is_paused is
\* is_paused: what it returns, a response standing for the list it is
\* picked from, and _is_paused after the call
handle(text, is_paused) ==
    LET g == split_greeting_and_remainder(text)
    IN IF text = <<>> \/ strip(text) = <<>>
       THEN [ret |-> Returned(TRUE, "None", "None", <<>>), is_paused |-> is_paused]
       ELSE IF has_pattern(text, "pause")
       THEN [ret |-> Returned(FALSE, "pause", "pause", <<>>), is_paused |-> TRUE]
       ELSE IF has_pattern(text, "goodbye")
       THEN [ret |-> Returned(FALSE, "goodbye", "pause", <<>>), is_paused |-> TRUE]
       ELSE IF has_pattern(text, "resume")
       THEN [ret |-> Returned(FALSE, "resume", "resume", <<>>), is_paused |-> FALSE]
       ELSE IF g.found
       THEN IF g.remainder = <<>> \/ ~looks_like_question_or_command(g.remainder)
            THEN [ret |-> Returned(FALSE, "greeting", "resume", <<>>),
                  is_paused |-> FALSE]
            ELSE [ret |-> Returned(TRUE, "greeting", "resume", g.remainder),
                  is_paused |-> is_paused]
       ELSE IF has_pattern(text, "thank_you")
       THEN [ret |-> Returned(FALSE, "thank_you", "None", <<>>), is_paused |-> is_paused]
       ELSE IF has_pattern(text, "how_are_you")
       THEN [ret |-> Returned(FALSE, "how_are_you", "None", <<>>), is_paused |-> is_paused]
       ELSE IF has_pattern(text, "help")
       THEN [ret |-> Returned(FALSE, "help", "None", <<>>), is_paused |-> is_paused]
       ELSE IF has_pattern(text, "time")
       THEN [ret |-> Returned(FALSE, "time", "None", <<>>), is_paused |-> is_paused]
       ELSE IF has_pattern(text, "date")
       THEN [ret |-> Returned(FALSE, "date", "None", <<>>), is_paused |-> is_paused]
       ELSE [ret |-> Returned(TRUE, "None", "None", text), is_paused |-> is_paused]

\* ---- transcriptions, as sequences of words ----
\* how the words of the transcriptions are written
Spell ==
    [stop |-> <<"s", "t", "o", "p">>,
     ziko |-> <<"z", "i", "k", "o">>,
     hello |-> <<"h", "e", "l", "l", "o">>]

\* " ".join(words), written out
RECURSIVE Join(_)
Join(words) ==
    IF words = <<>> THEN <<>>
    ELSE IF Len(words) = 1 THEN Spell[Head(words)]
    ELSE Spell[Head(words)] \o <<" ">> \o Join(Tail(words))

\* text.split(), read back as words
RECURSIVE Split(_)
Split(text) ==
    LET t == lstrip(text)
        e == RunEnd(t, 1, Letters \cup DOMAIN Capitals)
    IN IF t = <<>> \/ e = 1 THEN <<>>
       ELSE << CHOOSE w \in DOMAIN Spell : Spell[w] = SubSeq(t, 1, e - 1) >>
            \o Split(SubSeq(t, e, Len(t)))

STOP_TOKENS == {"stop"}

\* the words of the transcriptions that are in en_wake_exact
WAKE_TOKENS == {"ziko"}

Texts == { <<>>, <<"stop">>, <<"ziko", "stop">>, <<"ziko">>,
           <<"ziko", "hello">>, <<"hello">> }

\* wake_detector.extract_after_wake(user_input), for each transcription
wake_of ==
    [words \in Texts |->
        LET w == extract_after_wake(Join(words))
        IN [has_wake |-> w.has_wake, remaining |-> Split(w.remaining)]]

\* what the /stt service answers for a piece of audio: a text, or an error
SttAnswers == [ok : {TRUE}, text : Texts] \cup {[ok |-> FALSE, text |-> <<>>]}

\* a non-empty byte buffer: whether its first four bytes are "RIFF", and the
\* answer of the STT service for the audio in it
RawPcm == [riff : BOOLEAN, stt : SttAnswers]

\* what is said within the 1.3 s window of interruption_thread: nothing, a
\* word, a stop token, a wake word and a stop token
ShortTexts == { <<>>, <<"hello">>, <<"stop">>, <<"ziko", "stop">> }

ShortPcm == {b \in RawPcm : b.stt.text \in ShortTexts}

NoBuf == [riff |-> FALSE, stt |-> [ok |-> FALSE, text |-> <<>>]]

\* AudioRecorder.pcm_to_wav: the PCM behind a RIFF/WAVE header
pcm_to_wav(pcm) == [riff |-> TRUE, stt |-> pcm.stt]

\* SpeechToText.transcribe: ValueError unless the bytes start with "RIFF",
\* else the service's answer (an HTTP error is raised again)
transcribe(buf) ==
    IF ~buf.riff THEN [raised |-> TRUE, text |-> <<>>]
    ELSE [raised |-> ~buf.stt.ok, text |-> buf.stt.text]

\* a detector that knows no stop token
is_stop_command_never(text) == FALSE

\* StopCommandDetector.is_stop_command: the text begins with a stop token
is_stop_command(text) == text # <<>> /\ Head(text) \in STOP_TOKENS

\* StopCommandDetector.is_stop_with_optional_wake, for the detector built
\* by main.py: StopCommandDetector() has extract_after_wake_func = None, so
\* candidate = text
is_stop_with_optional_wake(text) ==
    IF text = <<>> THEN FALSE ELSE is_stop_command(text)

\* ---- the calls a thread still has to run, one step each ----
Op(o) == [op |-> o, job |-> NoJob]
PutOp(j) == [op |-> "put", job |-> j]

\* AudioPlayer.play_blocking(path): _safe_put(job); job.done.wait()
play_blocking(t, path) == << PutOp(Job(path, TRUE, t)), Op("wait") >>

\* AudioPlayer.play_async(path): _debounced(path), then _safe_put(job)
play_async(t, path) == << [op |-> "play_async", job |-> Job(path, FALSE, t)] >>

\* AudioPlayer.stop_current: cj = self._current_job; cj.canceled.set();
\* self.flush_queue()
stop_current == << Op("sc_read"), Op("sc_set"), Op("flush") >>

\* stop_speaking: audio_player.stop_current(); sd.stop()
stop_speaking == stop_current \o << Op("sd_stop") >>

\* interrupt() that stops after flush_queue(): the flags are not reset
interrupt_without_reset ==
    << Op("lock"), Op("sd_stop") >> \o stop_current \o << Op("flush") >>

\* interrupt() that resets the flags and leaves the lock first, and cancels
\* and clears afterwards
interrupt_reset_first ==
    << Op("lock"), Op("interrupt_end"), Op("sd_stop") >> \o stop_current
        \o << Op("flush") >>

\* interrupt() that calls the setter resume_listening() for is_listening,
\* inside its own `with self.lock`
interrupt_through_setter ==
    << Op("lock"), Op("sd_stop") >> \o stop_current
        \o << Op("flush"), Op("resume_listening"), Op("interrupt_end") >>

\* SystemState.interrupt, all of it inside `with self.lock`
interrupt ==
    << Op("lock"), Op("sd_stop") >> \o stop_current
        \o << Op("flush"), Op("interrupt_end") >>

\* AudioPlayer.shutdown: _running = False under the lock, then
\* put_nowait(AudioJob(path="")) with Full passed (the join has a timeout)
shutdown == << Op("shutdown_flag"), Op("shutdown_put") >>

\* cleanup(): sd.stop(), ..., audio_player.shutdown()
cleanup == << Op("sd_stop") >> \o shutdown

\* ---- how an exception leaves a thread ----
\* main_thread: both handlers that can catch it (lines 556-558, 563-566) call
\* traceback.print_exc(); `traceback` is a local name of main_thread, bound
\* only by the `import traceback` of the STT handler (line 478).  Unbound,
\* the handler itself raises UnboundLocalError and the thread ends.  (The
\* welcome clip is played before the loop's try, and before any import.)
M_after_exception(exc) ==
    IF traceback_bound
    THEN /\ pc' = [pc EXCEPT !["M"] = "m_while"]
         /\ UNCHANGED m_exc
    ELSE /\ pc' = [pc EXCEPT !["M"] = "m_dead"]
         /\ m_exc' = exc

\* threads that are not daemons: they go on after main() has returned
ProcessAlive_without_daemons == TRUE

\* main() has returned: the interpreter exits and takes the daemon threads
\* (main_thread, interruption_thread, the player's worker) with it
ProcessAlive == pc["P"] # "p_done"

\* an exception that no handler of interruption_thread catches: the thread
\* ends
I_after_exception_escapes ==
    /\ pc' = [pc EXCEPT !["I"] = "i_dead"]
    /\ UNCHANGED m_exc

\* interruption_thread: `except Exception: time.sleep(0.1)`, next iteration
I_after_exception ==
    /\ pc' = [pc EXCEPT !["I"] = "i_while"]
    /\ UNCHANGED m_exc

\* stop_current() is entered by t
stop_called(t) ==
    IF wjob.path # ""
    THEN [stop_hist EXCEPT !.held = @ \cup {t}]
    ELSE [stop_hist EXCEPT !.held = @ \ {t}]

\* stop_current() of t returns: its flush_queue() has found the queue empty
stop_returned(t) ==
    [held |-> stop_hist.held \ {t},
     returned |-> stop_hist.returned \/ t \in stop_hist.held]

\* setters where resume_interruption() leaves the gate as it is
gate_after_resume_ignored(o) ==
    CASE o = "pause_interruption" -> FALSE
      [] OTHER -> allow_listening_to_user

\* setters where resume_listening() opens the gate as well
gate_after_resume_listening(o) ==
    CASE o = "pause_interruption" -> FALSE
      [] o \in {"resume_interruption", "resume_listening"} ->
            (allow_interruption /\ TRUE)
      [] OTHER -> allow_listening_to_user

\* allow_listening_to_user after the call o: pause_interruption() and
\* resume_interruption() are its only writers
gate_after(o) ==
    CASE o = "pause_interruption" -> FALSE
      [] o = "resume_interruption" -> (allow_interruption /\ TRUE)
      [] OTHER -> allow_listening_to_user

\* a coordinator whose stop branch ends with pause_listening()
listening_after_pause(o) ==
    CASE o = "interrupt_end" -> TRUE
      [] o = "resume_listening" -> FALSE
      [] OTHER -> is_listening

\* is_listening after the call o: interrupt() and resume_listening() set it
\* to True, and nothing calls pause_listening()
listening_after(o) ==
    IF o \in {"interrupt_end", "resume_listening"} THEN TRUE ELSE is_listening

\* the call at the head of call[t] continues as o
Become(t, o) == [call EXCEPT ![t] = <<o>> \o Tail(@)]

\* queue.get_nowait() of flush_queue: the oldest job is taken out and dropped
flush_get(q) == Tail(q)

\* calls that are `with self.lock:` around one assignment
LockedOps == {"lock", "pause_interruption", "resume_interruption",
              "resume_listening"}

(***************************************************************************)
(* One step of the call at the head of call[t]:                            *)
(*   lock                   SystemState.interrupt's `with self.lock`       *)
(*   sd_stop                sd.stop()                                      *)
(*   sd_play / sd_wait      sd.play(..., blocking=True): playback begins;  *)
(*                          it is over (played out, or stopped by sd.stop) *)
(*   sc_read / sc_set       stop_current: cj = self._current_job;          *)
(*                          if cj is not None: cj.canceled.set()           *)
(*   flush                  flush_queue: get_nowait() until Empty          *)
(*   interrupt_end          the rest of interrupt(): clear_all_queues(),   *)
(*                          is_speaking, is_listening, the lock released   *)
(*   pause_interruption, resume_interruption, resume_listening             *)
(*                          the SystemState setters                        *)
(*   play_async             _debounced(path), else _safe_put(job)          *)
(*   put / put_drop / put_again           _safe_put: put_nowait; on Full   *)
(*                          get_nowait (Empty passed) and put_nowait again *)
(*                          outside any try, so Full escapes               *)
(*   wait                   job.done.wait(timeout=None)                    *)
(*   shutdown_flag / shutdown_put         shutdown(): _running = False;    *)
(*                          put_nowait(AudioJob(path="")), Full passed     *)
(***************************************************************************)
CallStep(t) ==
    /\ ProcessAlive
    /\ call[t] # <<>>
    /\ LET o == Head(call[t]).op
           j == Head(call[t]).job
           full == Len(queue) >= QueueMax
           raises == o = "put_again" /\ full
       IN /\ o \in LockedOps => lock = "none"
          /\ o = "wait" => done_evt[t]
          /\ lock' = CASE o = "lock" -> t
                       [] o = "interrupt_end" -> "none"
                       [] OTHER -> lock
          /\ sd_playing' = CASE o \in {"sd_stop", "sd_wait"} -> FALSE
                             [] o = "sd_play" -> TRUE
                             [] OTHER -> sd_playing
          /\ cj' = CASE o = "sc_read" ->
                          [cj EXCEPT ![t] = IF current_job THEN "cur" ELSE "None"]
                     [] o = "sc_set" -> [cj EXCEPT ![t] = "None"]
                     [] OTHER -> cj
          /\ stop_hist' = CASE o = "sc_read" -> stop_called(t)
                            [] o = "flush" /\ queue = <<>> -> stop_returned(t)
                            [] OTHER -> stop_hist
          /\ wcanceled' = IF o = "sc_set" THEN (wcanceled \/ cj[t] = "cur")
                          ELSE wcanceled
          /\ audio_queue' = IF o = "interrupt_end" THEN <<>> ELSE audio_queue
          /\ is_speaking' = IF o = "interrupt_end" THEN FALSE ELSE is_speaking
          /\ is_listening' = listening_after(o)
          /\ allow_listening_to_user' = gate_after(o)
          /\ running' = IF o = "shutdown_flag" THEN FALSE ELSE running
          /\ done_evt' = IF o = "wait" THEN [done_evt EXCEPT ![t] = FALSE]
                         ELSE done_evt
          /\ queue' = CASE o = "flush" /\ queue # <<>> -> flush_get(queue)
                        [] o \in {"put", "put_again"} /\ ~full -> Append(queue, j)
                        [] o = "put_drop" /\ queue # <<>> -> Tail(queue)
                        [] o = "shutdown_put" /\ ~full -> Append(queue, NoJob)
                        [] OTHER -> queue
          /\ \E recent \in IF o = "play_async" /\ j.path \in last_play_ts
                           THEN BOOLEAN ELSE {FALSE} :
                call' = CASE o = "flush" /\ queue # <<>> -> call
                          [] o = "play_async" /\ ~recent -> Become(t, PutOp(j))
                          [] o = "put" /\ full ->
                                Become(t, [op |-> "put_drop", job |-> j])
                          [] o = "put_drop" ->
                                Become(t, [op |-> "put_again", job |-> j])
                          [] raises -> [call EXCEPT ![t] = <<>>]
                          [] OTHER -> [call EXCEPT ![t] = Tail(@)]
          /\ IF raises
             THEN IF t = "M" THEN M_after_exception("Full")
                  ELSE I_after_exception
             ELSE UNCHANGED <<pc, m_exc>>
    /\ UNCHANGED <<is_active, allow_interruption, allow_wake_word, wpc, wjob,
                   current_job,
                   last_play_ts, is_first_time, traceback_bound, audio_wav,
                   user_message, handled, prompt_text, audio_buf>>
    /\ UNCHANGED <<recVars, fnVars>>

(***************************************************************************)
(* AudioPlayer._run, the worker thread                                     *)
(***************************************************************************)
plRest == <<is_listening, is_active, is_speaking, allow_listening_to_user,
            lock, allow_interruption, allow_wake_word, audio_queue,
            sd_playing, pc, call, is_first_time, traceback_bound, m_exc,
            audio_wav, user_message, handled, prompt_text, audio_buf>>

\* job.done.set(): wakes the thread waiting in play_blocking
done_set(job) ==
    IF job.blocking /\ job.owner \in Threads
    THEN [done_evt EXCEPT ![job.owner] = TRUE]
    ELSE done_evt

\* a worker that never tests self._running
W_Top_ignores_running ==
    /\ ProcessAlive
    /\ wpc = "w_top"
    /\ wpc' = "w_get"
    /\ UNCHANGED <<queue, running, wjob, current_job, wcanceled, last_play_ts,
                   done_evt, cj, stop_hist>>
    /\ UNCHANGED <<is_listening, is_active, is_speaking, allow_listening_to_user,
                   lock, allow_interruption, allow_wake_word, audio_queue,
                   sd_playing, pc, call, is_first_time, traceback_bound, m_exc,
                   audio_wav, user_message, handled, prompt_text, audio_buf>>
    /\ UNCHANGED <<recVars, fnVars>>

\* with self._lock: if not self._running: break
W_Top ==
    /\ ProcessAlive
    /\ wpc = "w_top"
    /\ wpc' = IF running THEN "w_get" ELSE "w_exit"
    /\ UNCHANGED <<queue, running, wjob, current_job, wcanceled, last_play_ts,
                   done_evt, cj, stop_hist>>
    /\ UNCHANGED plRest
    /\ UNCHANGED <<recVars, fnVars>>

\* job = self._queue.get(timeout=0.5); except Empty: continue
W_Get ==
    /\ ProcessAlive
    /\ wpc = "w_get"
    /\ IF queue # <<>>
       THEN /\ wjob' = Head(queue)
            /\ queue' = Tail(queue)
            /\ wpc' = "w_got"
       ELSE /\ wpc' = "w_top"
            /\ UNCHANGED <<wjob, queue>>
    /\ stop_hist' = NoStops
    /\ UNCHANGED <<running, current_job, wcanceled, last_play_ts, done_evt, cj>>
    /\ UNCHANGED plRest
    /\ UNCHANGED <<recVars, fnVars>>

\* the tests on the job just taken, up to `self._current_job = job`:
\* the wake-up job of shutdown ends the loop; a path that does not exist
\* (the empty path, a missing clip) is reported done and skipped
W_Got ==
    /\ ProcessAlive
    /\ wpc = "w_got"
    /\ \E exists \in IF wjob.path = "" THEN {FALSE} ELSE BOOLEAN :
          IF wjob.path = "" /\ ~running
          THEN /\ done_evt' = done_set(wjob)
               /\ wpc' = "w_exit"
               /\ wjob' = NoJob
               /\ UNCHANGED <<current_job, wcanceled>>
          ELSE IF ~exists
          THEN /\ done_evt' = done_set(wjob)
               /\ wpc' = "w_top"
               /\ wjob' = NoJob
               /\ UNCHANGED <<current_job, wcanceled>>
          ELSE /\ current_job' = TRUE
               /\ wcanceled' = FALSE
               /\ wpc' = "w_play"
               /\ UNCHANGED <<done_evt, wjob>>
    /\ stop_hist' = IF wjob'.path = "" THEN NoStops ELSE stop_hist
    /\ UNCHANGED <<queue, running, last_play_ts, cj>>
    /\ UNCHANGED plRest
    /\ UNCHANGED <<recVars, fnVars>>

\* _play_wav_job leaves its chunk loop (end of file, canceled, write error):
\* finally self._current_job = None; back in _run: job.done.set() and
\* self._last_play_ts[job.path] = time.time()
W_Played ==
    /\ ProcessAlive
    /\ wpc = "w_play"
    /\ current_job' = FALSE
    /\ cj' = [t \in Threads |-> IF cj[t] = "cur" THEN "stale" ELSE cj[t]]
    /\ done_evt' = done_set(wjob)
    /\ last_play_ts' = last_play_ts \cup ({wjob.path} \cap AsyncPaths)
    /\ wcanceled' = FALSE
    /\ wjob' = NoJob
    /\ stop_hist' = NoStops
    /\ wpc' = "w_top"
    /\ UNCHANGED <<queue, running>>
    /\ UNCHANGED plRest
    /\ UNCHANGED <<recVars, fnVars>>

Worker == W_Top \/ W_Get \/ W_Got \/ W_Played

(***************************************************************************)
(* main_thread                                                             *)
(***************************************************************************)
sysVars == <<is_listening, is_active, is_speaking, allow_listening_to_user,
             lock, allow_interruption, allow_wake_word, audio_queue,
             sd_playing>>

playerVars == <<queue, running, wpc, wjob, current_job, wcanceled,
                last_play_ts, done_evt, cj, stop_hist>>

Goto(t, p) == [pc EXCEPT ![t] = p]

Calls(t, ops) == [call EXCEPT ![t] = ops]

\* a thread is between two calls
At(t, p) == ProcessAlive /\ pc[t] = p /\ call[t] = <<>>

\* speak_safe(text) for a non-empty text: tts.tts (an error or an empty
\* reply ends it), then stop_speaking() and play_wav_bytes(wav_reply)
speak_safe(tts_ok) ==
    IF tts_ok THEN stop_speaking \o << Op("sd_play"), Op("sd_wait") >>
    ELSE <<>>

\* localCommandHandler.handle(text) for a transcription: the results it can
\* have, (should_continue, whether there is a local_response, pass_text); a
\* command or a greeting answered locally, a greeting followed by a
\* question, or a text for the AI
handle_results(text) ==
    { [should_continue |-> FALSE, local_response |-> TRUE, pass_text |-> <<>>],
      [should_continue |-> TRUE, local_response |-> FALSE, pass_text |-> text] }
    \cup (IF Len(text) > 1
          THEN { [should_continue |-> TRUE, local_response |-> TRUE,
                  pass_text |-> Tail(text)] }
          ELSE {})

\* audio_player.play_blocking("zico_welcome.wav"), before the loop
M_Welcome ==
    /\ At("M", "m_start")
    /\ pc' = Goto("M", "m_while")
    /\ call' = Calls("M", play_blocking("M", "zico_welcome.wav"))
    /\ UNCHANGED <<is_first_time, traceback_bound, m_exc, audio_wav,
                   user_message, handled, prompt_text>>
    /\ UNCHANGED <<sysVars, playerVars, audio_buf, recVars, fnVars>>

\* the top of an iteration of main_thread: system_state.pause_interruption(),
\* then the bell unless it is the first iteration
begin_iteration(first) ==
    << Op("pause_interruption") >> \o
        (IF ~first THEN play_blocking("M", "bell.wav") ELSE <<>>)

\* `while system_state.is_active:` then pause_interruption(), the bell on
\* every iteration but the first; after the loop, cleanup().  The locals
\* of the last iteration are dead here.
M_While ==
    /\ At("M", "m_while")
    /\ IF is_active
       THEN /\ pc' = Goto("M", "m_listen")
            /\ call' = Calls("M", begin_iteration(is_first_time))
            /\ is_first_time' = FALSE
       ELSE /\ pc' = Goto("M", "m_done")
            /\ call' = Calls("M", cleanup)
            /\ UNCHANGED is_first_time
    /\ audio_wav' = NoBuf
    /\ user_message' = <<>>
    /\ handled' = NoHandled
    /\ prompt_text' = <<>>
    /\ UNCHANGED <<traceback_bound, m_exc>>
    /\ UNCHANGED <<sysVars, playerVars, audio_buf, recVars, fnVars>>

\* `if not listening: continue`, else recorder.record_until_silence(...)
\* is entered: the primary capture
M_Listen ==
    /\ At("M", "m_listen")
    /\ pc' = Goto("M", IF listening THEN "m_recording" ELSE "m_while")
    /\ UNCHANGED <<call, is_first_time, traceback_bound, m_exc, audio_wav,
                   user_message, handled, prompt_text>>
    /\ UNCHANGED <<sysVars, playerVars, audio_buf, recVars, fnVars>>

\* the primary capture ends: the device raises (caught by the loop's
\* handler, line 563), or it returns PCM, which pcm_to_wav wraps
M_Recorded ==
    /\ At("M", "m_recording")
    /\ \/ /\ M_after_exception("device")
          /\ UNCHANGED audio_wav
       \/ \E pcm \in RawPcm :
             /\ audio_wav' = pcm_to_wav(pcm)
             /\ pc' = Goto("M", "m_stt")
             /\ UNCHANGED m_exc
    /\ UNCHANGED <<call, is_first_time, traceback_bound, user_message, handled,
                   prompt_text>>
    /\ UNCHANGED <<sysVars, playerVars, audio_buf, recVars, fnVars>>

\* stt.transcribe(audio_wav) and the tests on its text: the STT handler
\* (which imports traceback), empty text, stop command -> interrupt(),
\* wake word, the bare wake word -> play_blocking("yes_how_help.wav")
M_Stt ==
    /\ At("M", "m_stt")
    /\ LET r == transcribe(audio_wav)
           w == wake_of[r.text]
           msg == IF allow_wake_word THEN w.remaining ELSE r.text
       IN IF r.raised
          THEN /\ traceback_bound' = TRUE
               /\ pc' = Goto("M", "m_while")
               /\ UNCHANGED <<call, user_message>>
          ELSE /\ UNCHANGED traceback_bound
               /\ IF r.text = <<>> THEN
                     /\ pc' = Goto("M", "m_while")
                     /\ UNCHANGED <<call, user_message>>
                  ELSE IF is_stop_command(r.text) THEN
                     /\ pc' = Goto("M", "m_while")
                     /\ call' = Calls("M", interrupt)
                     /\ UNCHANGED user_message
                  ELSE IF allow_wake_word /\ ~w.has_wake THEN
                     /\ pc' = Goto("M", "m_while")
                     /\ UNCHANGED <<call, user_message>>
                  ELSE IF msg = <<>> THEN
                     /\ pc' = Goto("M", "m_while")
                     /\ call' = Calls("M", play_blocking("M", "yes_how_help.wav"))
                     /\ user_message' = msg
                  ELSE
                     /\ pc' = Goto("M", "m_local")
                     /\ user_message' = msg
                     /\ UNCHANGED call
    /\ audio_wav' = NoBuf
    /\ UNCHANGED <<is_first_time, m_exc, handled, prompt_text>>
    /\ UNCHANGED <<sysVars, playerVars, audio_buf, recVars, fnVars>>

\* localCommandHandler.handle(user_message) in its try; its handler calls
\* traceback.print_exc() before the fallback assignment; then
\* `if local_response: speak_safe(local_response)`
M_Local ==
    /\ At("M", "m_local")
    /\ \/ /\ IF traceback_bound
             THEN /\ handled' = [should_continue |-> TRUE,
                                 local_response |-> FALSE,
                                 pass_text |-> user_message]
                  /\ pc' = Goto("M", "m_dispatch")
                  /\ UNCHANGED m_exc
             ELSE /\ pc' = Goto("M", "m_dead")
                  /\ m_exc' = "handler"
                  /\ UNCHANGED handled
          /\ UNCHANGED call
       \/ \E h \in handle_results(user_message), tts_ok \in BOOLEAN :
             /\ h.local_response \/ tts_ok
             /\ handled' = h
             /\ call' = Calls("M", IF h.local_response THEN speak_safe(tts_ok)
                                   ELSE <<>>)
             /\ pc' = Goto("M", "m_dispatch")
             /\ UNCHANGED m_exc
    /\ UNCHANGED <<is_first_time, traceback_bound, audio_wav, user_message,
                   prompt_text>>
    /\ UNCHANGED <<sysVars, playerVars, audio_buf, recVars, fnVars>>

\* a dispatch that always sends the whole message
prompt_of_message(pass_text, message) == message

\* prompt_text = pass_text if pass_text else user_message
prompt_of(pass_text, message) ==
    IF pass_text # <<>> THEN pass_text ELSE message

\* `if should_continue and listening:` resume_interruption(), the thinking
\* clip unless a local response was spoken, prompt_text (user_message and
\* the handler's results are not read again in this iteration)
M_Dispatch ==
    /\ At("M", "m_dispatch")
    /\ IF handled.should_continue /\ listening
       THEN /\ call' = Calls("M", << Op("resume_interruption") >> \o
                          (IF ~handled.local_response
                           THEN play_async("M", "thinking.wav") ELSE <<>>))
            /\ prompt_text' = prompt_of(handled.pass_text, user_message)
            /\ pc' = Goto("M", "m_ai")
       ELSE /\ pc' = Goto("M", "m_while")
            /\ UNCHANGED <<call, prompt_text>>
    /\ user_message' = <<>>
    /\ handled' = NoHandled
    /\ UNCHANGED <<is_first_time, traceback_bound, m_exc, audio_wav>>
    /\ UNCHANGED <<sysVars, playerVars, audio_buf, recVars, fnVars>>

\* n8n.chat(...) returns (it answers "" for every failure); for an answer,
\* play_async("got_it.wav") and speak_safe(ai_response); then
\* pause_interruption()
M_Ai ==
    /\ At("M", "m_ai")
    /\ \E answered \in BOOLEAN, tts_ok \in BOOLEAN :
          /\ answered \/ tts_ok
          /\ call' = Calls("M",
                (IF answered
                 THEN play_async("M", "got_it.wav") \o speak_safe(tts_ok)
                 ELSE <<>>) \o << Op("pause_interruption") >>)
    /\ pc' = Goto("M", "m_while")
    /\ prompt_text' = <<>>
    /\ UNCHANGED <<is_first_time, traceback_bound, m_exc, audio_wav,
                   user_message, handled>>
    /\ UNCHANGED <<sysVars, playerVars, audio_buf, recVars, fnVars>>

MainThread ==
    \/ M_Welcome \/ M_While \/ M_Listen \/ M_Recorded \/ M_Stt \/ M_Local
    \/ M_Dispatch \/ M_Ai

(***************************************************************************)
(* interruption_thread                                                     *)
(***************************************************************************)
iRest == <<call, is_first_time, traceback_bound, m_exc, audio_wav,
           user_message, handled, prompt_text>>

\* `while system_state.is_active:` (read without the lock)
I_While ==
    /\ At("I", "i_while")
    /\ pc' = Goto("I", IF is_active THEN "i_gate" ELSE "i_done")
    /\ UNCHANGED <<iRest, audio_buf>>
    /\ UNCHANGED <<sysVars, playerVars, recVars, fnVars>>

\* `if system_state.allow_listening_to_user:` (read without the lock), then
\* recorder.record_until_silence(max_duration=1.3, ...) is entered
I_Gate ==
    /\ At("I", "i_gate")
    /\ pc' = Goto("I", IF allow_listening_to_user THEN "i_recording"
                       ELSE "i_while")
    /\ UNCHANGED <<iRest, audio_buf>>
    /\ UNCHANGED <<sysVars, playerVars, recVars, fnVars>>

\* the short-window capture ends: the device raises, or it returns PCM
I_Recorded ==
    /\ At("I", "i_recording")
    /\ \/ /\ I_after_exception
          /\ UNCHANGED audio_buf
       \/ \E pcm \in ShortPcm :
             /\ audio_buf' = pcm
             /\ pc' = Goto("I", "i_stt")
    /\ UNCHANGED iRest
    /\ UNCHANGED <<sysVars, playerVars, recVars, fnVars>>

\* partial = stt.transcribe(audio_buf), `except Exception: continue`,
\* `if not partial: continue`, and for a stop command: interrupt(),
\* play_blocking("listening.wav"), resume_listening()
I_Stt ==
    /\ At("I", "i_stt")
    /\ LET partial == transcribe(audio_buf)
       IN call' = Calls("I",
             IF ~partial.raised /\ partial.text # <<>>
                /\ is_stop_with_optional_wake(partial.text)
             THEN interrupt \o play_blocking("I", "listening.wav")
                    \o << Op("resume_listening") >>
             ELSE <<>>)
    /\ pc' = Goto("I", "i_while")
    /\ audio_buf' = NoBuf
    /\ UNCHANGED <<is_first_time, traceback_bound, m_exc, audio_wav,
                   user_message, handled, prompt_text>>
    /\ UNCHANGED <<sysVars, playerVars, recVars, fnVars>>

InterruptionThread == I_While \/ I_Gate \/ I_Recorded \/ I_Stt

(***************************************************************************)
(* main(): `while system_state.is_active: time.sleep(1)` until Ctrl-C,     *)
(* then system_state.stop_system()                                         *)
(***************************************************************************)
P_KeyboardInterrupt ==
    /\ At("P", "p_run")
    /\ lock = "none"
    /\ is_active' = FALSE
    /\ pc' = Goto("P", "p_cleanup")
    /\ UNCHANGED <<is_listening, is_speaking, allow_listening_to_user, lock,
                   allow_interruption, allow_wake_word, audio_queue,
                   sd_playing>>
    /\ UNCHANGED <<call, is_first_time, traceback_bound, m_exc, audio_wav,
                   user_message, handled, prompt_text, audio_buf>>
    /\ UNCHANGED <<playerVars, recVars, fnVars>>

\* cleanup() as main() runs it, and main() returns
P_Cleanup ==
    /\ At("P", "p_cleanup")
    /\ sd_playing' = FALSE
    /\ running' = FALSE
    /\ queue' = IF Len(queue) < QueueMax THEN Append(queue, NoJob) ELSE queue
    /\ pc' = Goto("P", "p_done")
    /\ UNCHANGED <<is_listening, is_active, is_speaking,
                   allow_listening_to_user, lock, allow_interruption,
                   allow_wake_word, audio_queue>>
    /\ UNCHANGED <<wpc, wjob, current_job, wcanceled, last_play_ts, done_evt, cj, stop_hist>>
    /\ UNCHANGED <<call, is_first_time, traceback_bound, m_exc, audio_wav,
                   user_message, handled, prompt_text, audio_buf>>
    /\ UNCHANGED <<recVars, fnVars>>

(***************************************************************************)
(* The program: main() has run initialize_settings() and                   *)
(* audio_player.start(), and has started the threads                       *)
(***************************************************************************)
Init ==
    /\ RecIdle
    /\ FnIdle
    /\ is_listening = TRUE
    /\ is_active = TRUE
    /\ is_speaking = FALSE
    /\ allow_listening_to_user = FALSE
    /\ lock = "none"
    /\ allow_interruption \in BOOLEAN
    /\ allow_wake_word \in BOOLEAN
    /\ audio_queue = <<>>
    /\ sd_playing = FALSE
    /\ queue = <<>>
    /\ running = TRUE
    /\ wpc = "w_top"
    /\ wjob = NoJob
    /\ current_job = FALSE
    /\ wcanceled = FALSE
    /\ last_play_ts = {}
    /\ pc = [t \in Threads |->
               CASE t = "M" -> "m_start"
                 [] t = "I" -> IF allow_interruption THEN "i_while" ELSE "off"
                 [] t = "P" -> "p_run"]
    /\ call = [t \in Threads |-> <<>>]
    /\ done_evt = [t \in Threads |-> FALSE]
    /\ cj = [t \in Threads |-> "None"]
    /\ stop_hist = NoStops
    /\ is_first_time = TRUE
    /\ traceback_bound = FALSE
    /\ m_exc = "none"
    /\ audio_wav = NoBuf
    /\ user_message = <<>>
    /\ handled = NoHandled
    /\ prompt_text = <<>>
    /\ audio_buf = NoBuf

Next ==
    \/ MainThread
    \/ InterruptionThread
    \/ P_KeyboardInterrupt
    \/ P_Cleanup
    \/ \E t \in Threads : CallStep(t)
    \/ Worker

Spec == Init /\ [][Next]_vars

\* The program while Ctrl-C does not come, every thread that can take a
\* step being scheduled: the worker, the two threads, and their calls
FairNext ==
    \/ MainThread
    \/ InterruptionThread
    \/ \E t \in Threads : CallStep(t)
    \/ Worker

FairSpec ==
    /\ Init
    /\ [][FairNext]_vars
    /\ WF_vars(MainThread)
    /\ WF_vars(InterruptionThread)
    /\ \A t \in Threads : WF_vars(CallStep(t))
    /\ WF_vars(Worker)

\* The program with Ctrl-C: once main() has caught KeyboardInterrupt and
\* called stop_system(), it goes on to cleanup() and returns; nothing is
\* assumed of the scheduling of the other threads
ShutdownSpec ==
    /\ Init
    /\ [][Next]_vars
    /\ WF_vars(P_Cleanup)

(***************************************************************************)
(* SystemState.interrupt() on its own: one caller, the player's worker     *)
(* beside it, from every state of the flags and of the player              *)
(***************************************************************************)
\* a clip waiting in the player's queue
QueuedJob == Job("thinking.wav", FALSE, "M")

\* the player's queue when interrupt() is called: empty, one clip, full
IntQueues == { <<>>, <<QueuedJob>>, [i \in 1..QueueMax |-> QueuedJob] }

\* nothing is playing and all queues are empty
Idle ==
    /\ queue = <<>>
    /\ audio_queue = <<>>
    /\ wjob = NoJob
    /\ ~current_job
    /\ ~sd_playing

\* the flags as pause_listening/resume_listening and set_speaking leave
\* them; the worker started and waiting; the caller about to call
IntInit ==
    /\ RecIdle
    /\ FnIdle
    /\ is_listening \in BOOLEAN
    /\ is_active = TRUE
    /\ is_speaking \in BOOLEAN
    /\ allow_listening_to_user \in BOOLEAN
    /\ lock = "none"
    /\ allow_interruption = TRUE
    /\ allow_wake_word = FALSE
    /\ audio_queue = <<>>
    /\ sd_playing \in BOOLEAN
    /\ queue \in IntQueues
    /\ running = TRUE
    /\ wpc = "w_top"
    /\ wjob = NoJob
    /\ current_job = FALSE
    /\ wcanceled = FALSE
    /\ last_play_ts = {}
    /\ pc = [t \in Threads |->
               CASE t = "M" -> "off"
                 [] t = "I" -> "x_start"
                 [] t = "P" -> "p_run"]
    /\ call = [t \in Threads |-> <<>>]
    /\ done_evt = [t \in Threads |-> FALSE]
    /\ cj = [t \in Threads |-> "None"]
    /\ stop_hist = NoStops
    /\ is_first_time = TRUE
    /\ traceback_bound = FALSE
    /\ m_exc = "none"
    /\ audio_wav = NoBuf
    /\ user_message = <<>>
    /\ handled = NoHandled
    /\ prompt_text = <<>>
    /\ audio_buf = NoBuf

\* system_state.interrupt() is called, the player idle or busy
X_Interrupt ==
    /\ At("I", "x_start")
    /\ call' = Calls("I", interrupt)
    /\ pc' = Goto("I", IF Idle THEN "x_once" ELSE "x_busy")
    /\ UNCHANGED <<is_first_time, traceback_bound, m_exc, audio_wav,
                   user_message, handled, prompt_text, audio_buf>>
    /\ UNCHANGED <<sysVars, playerVars, recVars, fnVars>>

\* the call made on the idle player has returned: interrupt() is called
\* again
X_Again ==
    /\ At("I", "x_once")
    /\ call' = Calls("I", interrupt)
    /\ pc' = Goto("I", "x_twice")
    /\ UNCHANGED <<is_first_time, traceback_bound, m_exc, audio_wav,
                   user_message, handled, prompt_text, audio_buf>>
    /\ UNCHANGED <<sysVars, playerVars, recVars, fnVars>>

IntNext ==
    \/ X_Interrupt
    \/ X_Again
    \/ CallStep("I")
    \/ Worker

\* the caller is scheduled; nothing is assumed of the worker
InterruptSpec ==
    /\ IntInit
    /\ [][IntNext]_vars
    /\ WF_vars(X_Interrupt)
    /\ WF_vars(X_Again)
    /\ WF_vars(CallStep("I"))

(***************************************************************************)
(* The AudioPlayer on its own: two threads that enqueue a clip each and a  *)
(* thread that calls shutdown(), the worker beside them, from every        *)
(* occupancy of the queue                                                  *)
(***************************************************************************)
PlayerInit ==
    /\ RecIdle
    /\ FnIdle
    /\ is_listening = TRUE
    /\ is_active = TRUE
    /\ is_speaking = FALSE
    /\ allow_listening_to_user = FALSE
    /\ lock = "none"
    /\ allow_interruption = FALSE
    /\ allow_wake_word = FALSE
    /\ audio_queue = <<>>
    /\ sd_playing = FALSE
    /\ queue \in {[i \in 1..n |-> QueuedJob] : n \in 0..QueueMax}
    /\ running = TRUE
    /\ wpc = "w_top"
    /\ wjob = NoJob
    /\ current_job = FALSE
    /\ wcanceled = FALSE
    /\ last_play_ts = {}
    /\ pc = [t \in Threads |-> "q_start"]
    /\ call = [t \in Threads |-> <<>>]
    /\ done_evt = [t \in Threads |-> FALSE]
    /\ cj = [t \in Threads |-> "None"]
    /\ stop_hist = NoStops
    /\ is_first_time = TRUE
    /\ traceback_bound = FALSE
    /\ m_exc = "none"
    /\ audio_wav = NoBuf
    /\ user_message = <<>>
    /\ handled = NoHandled
    /\ prompt_text = <<>>
    /\ audio_buf = NoBuf

\* thread t calls play_async or play_blocking
Q_Enqueue(t) ==
    /\ t \in {"M", "I"}
    /\ At(t, "q_start")
    /\ \E ops \in {play_async(t, "thinking.wav"), play_blocking(t, "listening.wav")} :
          call' = Calls(t, ops)
    /\ pc' = Goto(t, "q_called")
    /\ UNCHANGED <<is_first_time, traceback_bound, m_exc, audio_wav,
                   user_message, handled, prompt_text, audio_buf>>
    /\ UNCHANGED <<sysVars, playerVars, recVars, fnVars>>

\* shutdown() is called, the queue empty, neither empty nor full, or full
Q_Shutdown ==
    /\ At("P", "q_start")
    /\ call' = Calls("P", shutdown)
    /\ pc' = Goto("P", CASE queue = <<>> -> "q_shut_empty"
                         [] Len(queue) >= QueueMax -> "q_shut_full"
                         [] OTHER -> "q_shut_some")
    /\ UNCHANGED <<is_first_time, traceback_bound, m_exc, audio_wav,
                   user_message, handled, prompt_text, audio_buf>>
    /\ UNCHANGED <<sysVars, playerVars, recVars, fnVars>>

PlayerNext ==
    \/ \E t \in {"M", "I"} : Q_Enqueue(t)
    \/ Q_Shutdown
    \/ \E t \in Threads : CallStep(t)
    \/ Worker

\* the worker is scheduled, and a clip it plays comes to its end
PlayerSpec ==
    /\ PlayerInit
    /\ [][PlayerNext]_vars
    /\ WF_vars(Worker)

(***************************************************************************)
(* Properties of the running program                                       *)
(***************************************************************************)

\* thread t is inside record_until_silence
Capturing(t) == pc[t] = (IF t = "M" THEN "m_recording" ELSE "i_recording")

\* thread t is in job.done.wait() of play_blocking
Waiting(t) == call[t] # <<>> /\ Head(call[t]).op = "wait"

\* thread t enters SystemState.interrupt() with this step
InvokesInterrupt(t) ==
    /\ call[t] = <<>>
    /\ call'[t] # <<>>
    /\ Head(call'[t]).op = "lock"

\* C1: in no reachable state are interruption_thread's short-window capture
\* and main_thread's primary capture both inside record_until_silence.
C1_ExclusiveCapture == ~(Capturing("M") /\ Capturing("I"))

\* C2: when interruption_thread leaves the transcription of a short-window
\* capture that the STT service transcribes as "stop", it invokes
\* SystemState.interrupt() in that iteration.
C2_StopInterrupts ==
    [][ ( /\ pc["I"] = "i_stt"
          /\ audio_buf.stt = [ok |-> TRUE, text |-> <<"stop">>]
          /\ pc'["I"] # "i_stt" )
        => InvokesInterrupt("I") ]_vars

\* C3: no exception raised in an iteration (by the capture, the
\* transcription, the local-command handler, the AI dispatch) ends
\* main_thread: its loop ends only once is_active is false.
C3_LoopSurvivesExceptions == pc["M"] # "m_dead"

\* C4: every play_blocking call returns: a thread waiting for the done
\* event of its job eventually leaves the wait.
C4_PlayBlockingReturns ==
    \A t \in {"M", "I"} : Waiting(t) ~> ~Waiting(t)

\* this step of thread t reads a field of SystemState: the loop tests of
\* main_thread and interruption_thread, and the gate test
ReadsState(t) ==
    \/ t = "M" /\ M_While
    \/ t = "I" /\ (I_While \/ I_Gate)

\* this step of thread t is one of its calls writing a field of SystemState
WritesState(t) ==
    /\ call[t] # <<>>
    /\ Head(call[t]).op \in {"pause_interruption", "resume_interruption",
                             "resume_listening", "interrupt_end"}
    /\ CallStep(t)

\* thread t is inside `with self.lock` throughout this step: it holds the
\* lock, or the step is a whole setter (acquire, assign, release)
UnderLock(t) ==
    \/ lock = t
    \/ /\ lock = "none"
       /\ call[t] # <<>>
       /\ Head(call[t]).op \in LockedOps

\* C12: every read and every write of is_listening, is_active, is_speaking
\* and allow_listening_to_user, by any thread, happens while that thread
\* holds SystemState.lock.
C12_StateUnderLock ==
    [][ \A t \in Threads :
          (ReadsState(t) \/ WritesState(t)) => UnderLock(t) ]_vars

\* C13: once a stop_current() that was called while the worker held a job has
\* returned, that job is not being played un-cancelled: it is cancelled or was
\* never started
C13_StopCurrentStopsHeldJob ==
    stop_hist.returned => ~(wpc = "w_play" /\ ~wcanceled)

\* interrupt() was called on the idle player and has returned (once, twice)
ReturnedOnIdle == pc["I"] \in {"x_once", "x_twice"} /\ call["I"] = <<>>

\* what a second interrupt() in a row may change: nothing (the lock it
\* takes and gives back, and its own locals, apart)
InterruptState ==
    <<is_listening, is_active, is_speaking, allow_listening_to_user,
      audio_queue, sd_playing, queue, running, wjob, current_job, wcanceled,
      last_play_ts, done_evt>>

\* C14: interrupt() called when nothing is playing and the queues are empty
\* returns with is_speaking false, is_listening true, the queues empty and
\* the lock free; a second call in a row changes nothing of that state
C14_InterruptOnIdle ==
    /\ [](ReturnedOnIdle =>
            ~is_speaking /\ is_listening /\ Idle /\ lock = "none")
    /\ [][ (pc["I"] = "x_twice" /\ CallStep("I")) =>
              UNCHANGED InterruptState ]_vars

\* the second call in a row on the idle player has returned
C14_Witness ==
    /\ pc["I"] = "x_twice" /\ call["I"] = <<>>
    /\ ~is_speaking /\ is_listening /\ Idle

\* thread t takes the step of interrupt() that enters `with self.lock`
AcquiresLock(t) ==
    call[t] # <<>> /\ Head(call[t]).op = "lock" /\ CallStep(t)

\* thread t takes the step of interrupt() that resets the two flags
ResetsFlags(t) ==
    call[t] # <<>> /\ Head(call[t]).op = "interrupt_end" /\ CallStep(t)

\* ops, the steps a thread has before it once it holds the lock: the cancel
\* (canceled.set of stop_current), then the clearing (flush_queue), then the
\* flags, and up to the flags no step that takes or leaves the lock
CancelClearReset(ops) ==
    \E i, j, k \in 1..Len(ops) :
        /\ i < j /\ j < k
        /\ ops[i].op = "sc_set"
        /\ ops[j].op = "flush"
        /\ ops[k].op = "interrupt_end"
        /\ \A n \in 1..(k - 1) : ops[n].op \notin LockedOps \cup {"interrupt_end"}

\* C15: interrupt() cancels playback, clears the queues and then resets the
\* flags, inside one critical section: while a thread holds the lock no step
\* but its own last one changes is_speaking or is_listening or frees the
\* lock, and nothing of the cancelling or clearing is left to do after it
C15_CancelClearThenFlags ==
    [][ \A t \in Threads :
          /\ AcquiresLock(t) => CancelClearReset(call'[t])
          /\ ResetsFlags(t) =>
                /\ lock = t /\ lock' = "none"
                /\ \A n \in 1..Len(call'[t]) :
                      call'[t][n].op \notin {"sd_stop", "sc_read", "sc_set", "flush"}
          /\ (lock = t /\ ~ResetsFlags(t)) =>
                /\ lock' = t
                /\ UNCHANGED <<is_speaking, is_listening>>
      ]_vars

\* the coordinator's interrupt() has just returned: the clip that was
\* playing is cancelled, the flags are reset, the cue is next
C15_Witness ==
    /\ call["I"] # <<>>
    /\ Head(call["I"]) = PutOp(Job("listening.wav", TRUE, "I"))
    /\ lock = "none"
    /\ wpc = "w_play" /\ wcanceled
    /\ ~is_speaking /\ is_listening

\* the caller is inside interrupt()
InInterrupt == pc["I"] \in {"x_once", "x_busy", "x_twice"} /\ call["I"] # <<>>

\* C16: interrupt() completes and frees the lock whatever the player is
\* doing and whether or not the worker runs: every call returns with the lock
\* free, and while the caller holds the lock none of the steps before it
\* takes the lock again or waits for a job to be done
C16_InterruptCompletes ==
    /\ [](lock = "I" =>
            \A n \in 1..Len(call["I"]) :
                call["I"][n].op \notin LockedOps \cup {"wait"})
    /\ (InInterrupt ~> (call["I"] = <<>> /\ lock = "none"))

\* interrupt() has returned while the clip it cancelled is still with the
\* worker
C16_Witness ==
    /\ pc["I"] = "x_busy" /\ call["I"] = <<>>
    /\ lock = "none"
    /\ wpc = "w_play" /\ current_job

\* the coordinator takes the last step of handling a detected stop:
\* resume_listening(), after interrupt() and the listening cue
HandledStop ==
    /\ call["I"] # <<>>
    /\ Head(call["I"]).op = "resume_listening"
    /\ CallStep("I")

\* C17: when the coordinator has handled a detected stop (interrupt, cue,
\* resume) the gate allow_listening_to_user is true
C17_GateOpenAfterStop ==
    [][ HandledStop => allow_listening_to_user' ]_vars

\* the coordinator holds a capture that the STT service transcribes as a
\* wake word followed by a stop token
HeardWakeThenStop ==
    /\ pc["I"] = "i_stt"
    /\ ~transcribe(audio_buf).raised
    /\ Len(transcribe(audio_buf).text) = 2
    /\ transcribe(audio_buf).text[1] \in WAKE_TOKENS
    /\ transcribe(audio_buf).text[2] \in STOP_TOKENS

\* C18: the coordinator's stop test accepts a stop token preceded by a wake
\* word
C18_WakeThenStopAccepted ==
    HeardWakeThenStop => is_stop_with_optional_wake(transcribe(audio_buf).text)

\* the handler's fallback (main.py:520): go on to the AI, no local reply,
\* the post-wake message as the text to pass
SafeDefault ==
    [should_continue |-> TRUE, local_response |-> FALSE,
     pass_text |-> user_message]

\* C19: the local-command step always goes on to the dispatch of the same
\* turn: with what handle returned, or, when handle raised, with the safe
\* default and nothing spoken
C19_HandlerErrorFallsBack ==
    [][ M_Local =>
          /\ pc'["M"] = "m_dispatch"
          /\ \/ handled' \in handle_results(user_message)
             \/ handled' = SafeDefault /\ UNCHANGED call
      ]_vars

\* interruption_thread is in its `while system_state.is_active` loop
InCoordinatorLoop ==
    pc["I"] \in {"i_while", "i_gate", "i_recording", "i_stt"}

\* the transcription of the coordinator's capture is about to raise
TranscriptionFails == pc["I"] = "i_stt" /\ transcribe(audio_buf).raised

\* C20: once started, the coordinator is in its loop as long as is_active is
\* true, and an exception raised in an iteration (by the capture, the
\* transcription, the interrupt or the cue) takes it to the loop test
C20_CoordinatorLoopSurvives ==
    /\ []((allow_interruption /\ is_active) => InCoordinatorLoop)
    /\ [][ /\ (I_Stt /\ TranscriptionFails) =>
                pc'["I"] = "i_while" /\ call'["I"] = <<>>
           /\ (InCoordinatorLoop /\ ~InCoordinatorLoop') => ~is_active
         ]_vars

\* the coordinator holds a capture that is not a WAV file, which transcribe
\* refuses with a ValueError, while the program is active
C20_Witness ==
    /\ TranscriptionFails
    /\ ~audio_buf.riff
    /\ is_active
    /\ call["I"] = <<>>

\* main_thread is about to enter, or is inside, its primary capture
PrimaryCapture == At("M", "m_listen") \/ Capturing("M")

\* a step that opens the gate
OpensGate == ~allow_listening_to_user /\ allow_listening_to_user'

\* C21: while main_thread starts or performs a primary capture the gate
\* allow_listening_to_user is false, and the gate is opened by nothing but
\* main_thread's own resume_interruption()
C21_GateClosedInPrimaryCapture ==
    /\ [](PrimaryCapture => ~allow_listening_to_user)
    /\ [][ OpensGate =>
             /\ call["M"] # <<>>
             /\ Head(call["M"]).op = "resume_interruption"
             /\ CallStep("M") ]_vars

\* a primary capture of a later iteration, the gate having been open for a
\* dispatch before and the coordinator running
C21_Witness ==
    /\ Capturing("M")
    /\ allow_interruption
    /\ InCoordinatorLoop
    /\ last_play_ts # {}
    /\ ~allow_listening_to_user

\* main_thread has run resume_interruption() for a dispatch and not yet the
\* pause_interruption() that follows the reply: the remote call
\* (n8n.chat) is in flight, or the got_it clip and the spoken reply are
WithRemoteAI ==
    \/ /\ pc["M"] = "m_ai"
       /\ call["M"] = <<>> \/ Head(call["M"]).op # "resume_interruption"
    \/ /\ pc["M"] = "m_while"
       /\ call["M"] # <<>>
       /\ call["M"][Len(call["M"])].op = "pause_interruption"

\* C22 as stated: from the dispatch to the end of the reply's playback the
\* gate is true, and it is false again at the next primary listen
C22_GateOpenWithRemoteAI ==
    /\ WithRemoteAI => allow_listening_to_user
    /\ At("M", "m_listen") => ~allow_listening_to_user

\* C22: from the dispatch to the end of the reply's playback the gate has
\* the value of the setting allow_interruption (true when interruption is
\* enabled), and it is false again at the next primary listen
C22_GateFollowsSettingWithRemoteAI ==
    /\ WithRemoteAI => (allow_listening_to_user = allow_interruption)
    /\ At("M", "m_listen") => ~allow_listening_to_user

\* the remote call is in flight, the gate open and the coordinator inside a
\* capture
C22_Witness ==
    /\ pc["M"] = "m_ai" /\ call["M"] = <<>>
    /\ allow_interruption /\ allow_listening_to_user
    /\ Capturing("I")

\* the primary transcription begins with a stop token
HeardStop ==
    /\ pc["M"] = "m_stt"
    /\ ~transcribe(audio_wav).raised
    /\ transcribe(audio_wav).text # <<>>
    /\ Head(transcribe(audio_wav).text) \in STOP_TOKENS

\* C23: on a primary transcription that is a direct stop command
\* main_thread calls interrupt() and nothing else, and goes to the top of
\* its loop: no local command handler, no remote AI, no speech in that
\* iteration
C23_StopLoopsAgain ==
    [][ (M_Stt /\ HeardStop) =>
           /\ call'["M"] = interrupt
           /\ pc'["M"] = "m_while"
           /\ UNCHANGED <<user_message, handled, prompt_text>> ]_vars

\* main_thread is inside the interrupt() of a direct stop command
C23_Witness ==
    /\ pc["M"] = "m_while"
    /\ lock = "M"
    /\ call["M"] # <<>>

\* s is the end of t
IsSuffix(s, t) == \E k \in 0..Len(t) : s = SubSeq(t, k + 1, Len(t))

\* the primary transcription, a text that is not a stop command
HeardText ==
    /\ pc["M"] = "m_stt"
    /\ ~transcribe(audio_wav).raised
    /\ transcribe(audio_wav).text # <<>>
    /\ Head(transcribe(audio_wav).text) \notin STOP_TOKENS

\* C24: with wake-word enforcement on, a transcription that does not begin
\* with a wake token (and is no stop command) ends the iteration with no
\* call, no message and no prompt; a transcription goes on to the local
\* command handler as the text after its wake token only, and the prompt of
\* a dispatch is an end of that text
C24_WakeWordEnforced ==
    [][ /\ (M_Stt /\ HeardText /\ allow_wake_word) =>
              LET text == transcribe(audio_wav).text
              IN IF Head(text) \in WAKE_TOKENS
                 THEN /\ user_message' = Tail(text)
                      /\ pc'["M"] = "m_local" \/ Tail(text) = <<>>
                 ELSE /\ pc'["M"] = "m_while"
                      /\ UNCHANGED <<call, user_message, handled, prompt_text>>
        /\ (M_Dispatch /\ pc'["M"] = "m_ai") => IsSuffix(prompt_text', user_message)
      ]_vars

\* wake-word enforcement on, and the transcription to be tested is a text
\* without wake token
C24_Witness ==
    /\ allow_wake_word
    /\ HeardText
    /\ At("M", "m_stt")
    /\ Head(transcribe(audio_wav).text) \notin WAKE_TOKENS

\* C25: whatever the classification (should_continue, local_response,
\* pass_text): a local response is handed to speak_safe and nothing is
\* spoken without one; the dispatch is made if and only if should_continue,
\* after the local response has been spoken; the prompt is pass_text when
\* it is not empty and the post-wake message otherwise
C25_ClassificationDrivesTurn ==
    [][ /\ (M_Local /\ pc'["M"] = "m_dispatch") =>
              IF handled'.local_response
              THEN call'["M"] \in {<<>>, stop_speaking \o << Op("sd_play"), Op("sd_wait") >>}
              ELSE call'["M"] = <<>>
        /\ M_Dispatch =>
              /\ call["M"] = <<>>
              /\ (pc'["M"] = "m_ai") = handled.should_continue
              /\ handled.should_continue =>
                    /\ prompt_text' = IF handled.pass_text # <<>>
                                      THEN handled.pass_text ELSE user_message
                    /\ Head(call'["M"]).op = "resume_interruption"
              /\ ~handled.should_continue =>
                    /\ pc'["M"] = "m_while"
                    /\ UNCHANGED <<call, prompt_text>>
      ]_vars

\* a greeting followed by a question: the local response has been spoken
\* and the rest of the message is the prompt of the dispatch
C25_Witness ==
    /\ pc["M"] = "m_ai"
    /\ call["M"] = << Op("resume_interruption") >>
    /\ ~allow_wake_word
    /\ prompt_text = <<"hello">>
    /\ sd_playing = FALSE

\* the two loops have ended: main() has returned and the interpreter has
\* stopped its daemon threads, each in its loop or past it
LoopsEnded == ~ProcessAlive

\* cleanup() has run: the output device is stopped and the player shut down
CleanedUp == pc["P"] = "p_done" /\ ~sd_playing /\ ~running

Word ==
    [hey |-> <<"h", "e", "y">>,
     hi |-> <<"h", "i">>,
     hello |-> <<"h", "e", "l", "l", "o">>,
     zico |-> <<"z", "i", "c", "o">>,
     ziko |-> <<"z", "i", "k", "o">>,
     zeeco |-> <<"Z", "E", "e", "C", "o">>,
     dico |-> <<"D", "i", "c", "o">>,
     nico |-> <<"N", "i", "c", "o">>,
     zika |-> <<"Z", "i", "k", "a">>,
     z |-> <<"Z">>,
     sorry |-> <<"s", "o", "r", "r", "y">>,
     play |-> <<"p", "l", "a", "y">>,
     open_mail |-> <<"o", "p", "e", "n", " ", "m", "a", "i", "l">>]

\* a test text is an optional greeting and a space, a first word, what is
\* written between it and the rest, and the rest
TestCases ==
    [greeting : {<<>>, Word.hey, Word.hi, Word.hello},
     first : {Word.zico, Word.ziko, Word.zeeco, Word.dico, Word.nico,
              Word.zika, Word.z, Word.sorry, Word.play},
     trail : { <<" ">>, <<",", " ">>, <<".">> },
     rest : {<<>>, Word.open_mail, Word.ziko \o <<" ">> \o Word.open_mail}]

TextOf(c) ==
    (IF c.greeting = <<>> THEN <<>> ELSE c.greeting \o <<" ">>)
        \o c.first \o c.trail \o c.rest

WakeInit ==
    /\ RecIdle
    /\ ThreadsIdle
    /\ fn_pc = "extract_after_wake"
    /\ fn_in \in TestCases
    /\ fn_out = <<>>

\* has_wake, remainder, wake_form = detector.extract_after_wake(text)
WakeTest ==
    /\ fn_pc = "extract_after_wake"
    /\ fn_out' = extract_after_wake(TextOf(fn_in))
    /\ fn_pc' = "done"
    /\ UNCHANGED <<fn_in, recVars, thrVars>>

WakeNext == WakeTest

WakeSpec == WakeInit /\ [][WakeNext]_vars

\* the first words that are forms of the assistant's name
WakeForms == {Word.zico, Word.ziko, Word.zeeco, Word.dico}

\* C28: a text that begins with hey, hi or hello, a space and a form of the
\* wake word is accepted, and the remainder is the text after the wake word
\* and the punctuation that follows it
C28_GreetingThenWake ==
    (/\ fn_pc = "done"
     /\ fn_in.greeting \in {Word.hey, Word.hi, Word.hello}
     /\ fn_in.first \in WakeForms)
        => fn_out = [has_wake |-> TRUE, remaining |-> fn_in.rest]

\* C29: a text that begins with a near-miss name (Nico, Zika), with a single
\* letter or with some other word (the wake word, if any, coming later) is
\* rejected
C29_NearMissRejected ==
    (fn_pc = "done" /\ fn_in.greeting = <<>> /\ fn_in.first \notin WakeForms)
        => ~fn_out.has_wake

(***************************************************************************)
(* Part IV.  The self-test loop of local_commands.py, on                   *)
(* LocalCommandHandler.handle                                              *)
(***************************************************************************)

\* " ".join(words), the words as they are written
RECURSIVE join(_)
join(words) ==
    IF words = <<>> THEN <<>>
    ELSE IF Len(words) = 1 THEN Head(words)
    ELSE Head(words) \o <<" ">> \o join(Tail(words))

\* the phrases of the lists with these names, as texts
TextsOf(pattern_names) ==
    {join(phrase) : phrase \in UNION {Patterns[n] : n \in pattern_names}}

\* texts that are a question or a command for the AI: "explain dotnet
\* core", "explain repository pattern"
QuestionsAndCommands ==
    { <<"e", "x", "p", "l", "a", "i", "n", " ", "d", "o", "t", "n", "e", "t",
        " ", "c", "o", "r", "e">>,
      <<"e", "x", "p", "l", "a", "i", "n", " ", "r", "e", "p", "o", "s", "i",
        "t", "o", "r", "y", " ", "p", "a", "t", "t", "e", "r", "n">> }

\* the phrases of the greeting, goodbye, pause, resume, time and thank-you
\* lists
LocalPhrases ==
    TextsOf({"greeting", "goodbye", "pause", "resume", "time", "thank_you"})

\* a test text: an optional greeting and what is written after it, a body
\* and what is written after it
HandleCases ==
    [greeting : {<<>>, Word.hello, <<"H", "i">>},
     sep : { <<" ">>, <<",", " ">> },
     body : LocalPhrases \cup QuestionsAndCommands,
     end : { <<>>, <<"!">> }]

HandleTextOf(c) ==
    (IF c.greeting = <<>> THEN <<>> ELSE c.greeting \o c.sep) \o c.body \o c.end

\* handler = LocalCommandHandler(enable_stats=True), at some test of the
\* loop: _is_paused is what the calls before have left
HandleInit ==
    /\ RecIdle
    /\ ThreadsIdle
    /\ fn_pc = "handle"
    /\ fn_in \in HandleCases
    /\ fn_out \in [is_paused : BOOLEAN]

\* should_continue, resp, action, pass_text = handler.handle(text)
HandleTest ==
    /\ fn_pc = "handle"
    /\ fn_out' = handle(HandleTextOf(fn_in), fn_out.is_paused)
    /\ fn_pc' = "done"
    /\ UNCHANGED <<fn_in, recVars, thrVars>>

HandleNext == HandleTest

HandleSpec == HandleInit /\ [][HandleNext]_vars

\* C30: a text that is a greeting, a goodbye or pause, a resume, a time
\* query or a thank-you phrase is answered locally (should_continue False,
\* with a response); a question or command that matches no local pattern
\* goes to the AI; a greeting followed by a question or command goes to the
\* AI as what follows the greeting
C30_LocalOrPassthrough ==
    fn_pc = "done" =>
        /\ (fn_in.greeting = <<>> /\ fn_in.body \in LocalPhrases)
              => /\ ~fn_out.ret.should_continue
                 /\ fn_out.ret.local_response # "None"
        /\ (fn_in.greeting = <<>> /\ fn_in.body \in QuestionsAndCommands)
              => fn_out.ret.should_continue
        /\ (fn_in.greeting # <<>> /\ fn_in.body \in QuestionsAndCommands)
              => /\ fn_out.ret.should_continue
                 /\ normalize_text(fn_out.ret.pass_text) = normalize_text(fn_in.body)

\* C31: no call of play_async or play_blocking raises, whatever the other
\* threads do and however full the queue is (the second put_nowait of
\* _safe_put never finds the queue full), and the queue never holds more
\* than QueueMax jobs
C31_EnqueueNeverRaises ==
    /\ [](Len(queue) <= QueueMax)
    /\ [][\A t \in Threads :
            (CallStep(t) /\ call[t] # <<>> /\ Head(call[t]).op = "put_again")
                => Len(queue) < QueueMax]_vars

\* C32: once shutdown() has cleared _running, the worker's loop ends, whether
\* the queue was empty, partly filled or full when shutdown() was called
C32_ShutdownEndsWorker == (~running) ~> (wpc = "w_exit")

\* the worker has left its loop after a shutdown() called on a full queue
C32_Witness == wpc = "w_exit" /\ pc["P"] = "q_shut_full" /\ ~running

\* C38: in every state of the running program is_speaking is false and
\* is_listening is true
C38_FlagsConstant == ~is_speaking /\ is_listening

\* interrupt() has run in the coordinator's stop branch and
\* resume_listening() is about to
C38_Witness ==
    /\ call["I"] # <<>>
    /\ Head(call["I"]).op = "resume_listening"
    /\ ~is_speaking
    /\ is_listening

(***************************************************************************)
(* Properties of record_until_silence                                      *)
(***************************************************************************)

\* number of calibration frames read (each calibration pass appends one rms)
ncalib == Len(noise_vals)

\* the pre-roll seed at the head of `frames`: frames read during calibration
SeededCount == Cardinality({i \in 1..Len(frames) : frames[i].n <= ncalib})

calibrated == rpc \in {"main", "hold", "done"}

\* C5: end-of-speech detection (the step into the post-silence hold) never
\* happens before min_speech_after_start has elapsed since the start
\* transition, even when under_count reached end_frames earlier.
C5_MinSpeech ==
    (rpc = "hold" /\ hold_i = 0)
        => (speaking /\ start_time # 0
            /\ now - start_time >= cfg.min_speech_after_start)

\* C5 witness: detection fired after under_count had passed end_frames while
\* the minimum speech time was still running.
C5_Witness ==
    /\ rpc = "hold"
    /\ hold_i = 0
    /\ cfg.min_speech_after_start > 0
    /\ under_count > cfg.end_frames

\* C6 (as claimed): record_until_silence returns within max_duration +
\* post_silence_hold + one frame's read time of the moment it was called.
C6_DeadlineFromCall ==
    rpc = "done"
        => now <= Epoch + cfg.max_duration + cfg.post_silence_hold + FrameMs

\* C7: after derivation from any non-negative noise floor and any
\* threshold_boost >= 0, start_threshold >= end_threshold.
C7_Hysteresis == calibrated => thresholds.start >= thresholds.end

\* C7 witness: thresholds derived from a measured noise floor, with the
\* proportional term (not the absolute floor) giving the end threshold.
C7_Witness ==
    /\ calibrated
    /\ noise_vals # <<>>
    /\ thresholds.end > 100 * ThrScale(noise_vals)
    /\ thresholds.start > 150 * ThrScale(noise_vals)

\* C8: the buffer begins with the most recent calibration frames (the last
\* min(ncalib, pre_roll_blocks) frames read during calibration), in the
\* order they were read, before any main-loop frame.
C8_PreRollPrefix ==
    calibrated =>
        LET blocks == Max(1, ((rate * cfg.pre_roll_ms) \div 1000) \div chunk)
            k == IF ncalib <= blocks THEN ncalib ELSE blocks
        IN /\ Len(frames) >= k
           /\ \A i \in 1..k :
                 frames[i] = Frame(ncalib - k + i, noise_vals[ncalib - k + i])
           /\ \A i \in (k + 1)..Len(frames) : frames[i].n = ncalib + (i - k)

\* C8 witness: a returned buffer whose calibration overflowed the pre-roll
\* ring and that also holds main-loop frames.
C8_Witness ==
    /\ rpc = "done"
    /\ ncalib > pre_roll_blocks(cfg.pre_roll_ms)
    /\ Len(frames) > SeededCount
    /\ SeededCount > 0

\* C9 (as claimed): the number of calibration frames seeded into the buffer
\* never exceeds floor(rate * pre_roll_ms / 1000 / chunk).
C9_SeedWithinPreRoll ==
    calibrated => SeededCount <= ((rate * cfg.pre_roll_ms) \div 1000) \div chunk

\* C9 (amended): the number of calibration frames seeded into the buffer
\* never exceeds max(1, floor(rate * pre_roll_ms / 1000 / chunk)): the ring
\* always holds at least one frame.
C9_SeedWithinClampedPreRoll ==
    calibrated =>
        SeededCount <= Max(1, ((rate * cfg.pre_roll_ms) \div 1000) \div chunk)

\* C9 witness: pre_roll_ms shorter than one frame, calibration longer than
\* one frame, and exactly one calibration frame seeded.
C9_Witness ==
    /\ rpc = "done"
    /\ cfg.pre_roll_ms < FrameMs
    /\ ncalib > 1
    /\ SeededCount = 1

\* the silent-room run went through all of its frames and ended by
\* end-of-speech detection
ScenarioEnded ==
    /\ rpc = "done"
    /\ nreads - ncalib - hold_i = ScenarioFrames
    /\ hold_blocks > 0

\* C10 (as claimed): the returned buffer holds exactly the pre-roll frames,
\* the 5 loud frames, the 15 trailing quiet frames and the hold frames.
C10_BufferWithoutLeadingQuiet ==
    ScenarioEnded =>
        Len(returned) = SeededCount + ScenarioLoud + ScenarioTrail + hold_i

\* C10 (amended): the returned buffer holds exactly the pre-roll frames, the
\* 3 leading quiet frames, the 5 loud frames, the 15 trailing quiet frames
\* and the hold frames, in read order; speaking goes from false to true
\* once, at the third loud frame, and never back.
C10_SilentRoom ==
    /\ [](ScenarioEnded =>
            /\ Len(returned)
                 = SeededCount + ScenarioQuiet + ScenarioLoud + ScenarioTrail + hold_i
            /\ \A i \in 1..ScenarioFrames :
                  returned[SeededCount + i]
                     = Frame(ncalib + i, ScenarioEnergy(i))
            /\ \A i \in 1..hold_i :
                  returned[SeededCount + ScenarioFrames + i].n
                     = ncalib + ScenarioFrames + i
            /\ speaking
            /\ start_time = (hard_deadline - cfg.max_duration)
                               + FrameMs * (ScenarioQuiet + 3))
    /\ [][speaking => speaking']_vars
    /\ [](~speaking => nreads - ncalib < ScenarioQuiet + 3)

\* C10 witness: the silent-room run ended by detection with pre-roll frames
\* and hold frames in the buffer.
C10_Witness ==
    /\ ScenarioEnded
    /\ SeededCount > 0
    /\ hold_i > 0
    /\ speaking

\* no frame read by the main loop so far reached start_threshold
NeverLoud ==
    \A i \in 1..Len(frames) :
        frames[i].n > ncalib
            => frames[i].rms * ThrScale(noise_vals) < thresholds.start

\* the buffer is the pre-roll seed followed by every frame read since
WholeBuffer ==
    /\ Len(returned) = SeededCount + (nreads - ncalib)
    /\ \A i \in 1..(nreads - ncalib) :
          returned[SeededCount + i].n = ncalib + i

\* C11 (as claimed): if no frame ever reaches start_threshold, the call
\* returns at the hard deadline with a non-empty buffer (pre-roll plus
\* every frame read) and speaking is never set to true.
C11_QuietReturnsNonEmpty ==
    (rpc = "done" /\ NeverLoud)
        => (~speaking /\ now >= hard_deadline /\ WholeBuffer
            /\ returned # <<>>)

\* C11 (amended): if no frame ever reaches start_threshold, speaking is
\* never set to true and the call returns at the hard deadline (less than
\* one frame after it) with the pre-roll plus every frame read; that buffer
\* is non-empty whenever a frame was read, in particular whenever
\* calibration read one or max_duration > 0 (the clock advancing only in
\* frame reads).
C11_QuietReturnsAtDeadline ==
    (calibrated /\ NeverLoud)
        => /\ ~speaking
           /\ rpc # "hold"
           /\ rpc = "done"
                => /\ now >= hard_deadline
                   /\ now < hard_deadline + FrameMs
                   /\ WholeBuffer
                   /\ nreads > 0 => returned # <<>>
                   /\ (cfg.max_duration > 0 \/ ncalib > 0) => nreads > 0

\* C11 witness: a call that ended at the deadline after main-loop frames
\* that stayed between the two thresholds, with a pre-roll seed.
C11_Witness ==
    /\ rpc = "done"
    /\ NeverLoud
    /\ nreads - ncalib >= 2
    /\ SeededCount > 0
    /\ \E i \in 1..Len(frames) :
          frames[i].n > ncalib
            /\ frames[i].rms * ThrScale(noise_vals) >= thresholds.end

\* C27: a frame read that fails, in the calibration, the main loop or the
\* post-silence hold, ends record_until_silence with the exception: the call
\* never returns a buffer afterwards, empty or partial
C27_ReadFailurePropagates ==
    [][ /\ ReadFails => rpc' = "raised"
        /\ rpc = "raised" => rpc' = "raised" ]_vars

\* a read has failed after frames had been collected
C27_Witness == rpc = "raised" /\ frames # <<>> /\ speaking

\* C33: from the end of calibration on, the buffer begins with the pre-roll
\* ring as calibration left it, and every frame read afterwards (main loop
\* or hold, whatever its energy) is appended to it once, in read order;
\* nothing else changes the buffer, and it is what the call returns
C33_EveryFrameOnce ==
    /\ [](calibrated =>
            /\ SubSeq(frames, 1, Len(ring_pre)) = ring_pre
            /\ Len(frames) = Len(ring_pre) + (nreads - ncalib)
            /\ \A i \in 1..(nreads - ncalib) :
                  frames[Len(ring_pre) + i].n = ncalib + i)
    /\ [][calibrated =>
            IF nreads' = nreads + 1
            THEN \E e \in Energies : frames' = Append(frames, Frame(nreads', e))
            ELSE frames' = frames]_vars
    /\ [](rpc = "done" => returned = frames)

\* a returned buffer with a pre-roll seed, a main-loop frame below the end
\* threshold read before speech, frames read while speaking, and hold frames
C33_Witness ==
    /\ rpc = "done"
    /\ SeededCount > 0
    /\ hold_i > 0
    /\ Len(frames) > SeededCount + hold_i + 1
    /\ frames[SeededCount + 1].rms * ThrScale(noise_vals) < thresholds.end

\* the frame read by the step from this state to the next
FrameRead == frames'[Len(frames')]

\* the last k frames of the buffer were read by the main loop, and all of
\* them with energy at or above start_threshold
LastOver(fr, k) ==
    /\ Len(fr) >= k
    /\ \A i \in (Len(fr) - k + 1)..Len(fr) :
          /\ fr[i].n > ncalib
          /\ fr[i].rms * ThrScale(noise_vals) >= thresholds.start

\* C34: a main-loop frame read while not speaking counts up over_count if
\* its energy is at or above start_threshold and sets it to 0 otherwise;
\* speaking becomes true at that frame exactly if it completes start_frames
\* consecutive such frames; speaking never goes back to false
C34_StartTransition ==
    /\ [][(rpc = "main" /\ ~speaking /\ nreads' = nreads + 1) =>
            LET over == FrameRead.rms * ThrScale(noise_vals) >= thresholds.start
            IN /\ over_count' = (IF over THEN over_count + 1 ELSE 0)
               /\ speaking' = LastOver(frames', cfg.start_frames)
               /\ speaking' => start_time' = now']_vars
    /\ [][(calibrated /\ speaking) => speaking']_vars
    /\ [](calibrated /\ ~speaking => over_count < cfg.start_frames)

\* speech has just started at the second loud frame in a row, a quiet frame
\* having reset the count before
C34_Witness ==
    /\ speaking
    /\ start_time = now
    /\ cfg.start_frames = 2
    /\ Len(frames) >= SeededCount + 4
    /\ frames[Len(frames) - 2].n > ncalib
    /\ frames[Len(frames) - 2].rms * ThrScale(noise_vals) < thresholds.start
    /\ frames[Len(frames) - 3].rms * ThrScale(noise_vals) >= thresholds.start
    /\ frames[Len(frames) - 3].n > ncalib

\* the position in the stream of the frame at which speaking became true
\* (the main loop begins at hard_deadline - max_duration, one frame per read)
StartFrame == ncalib + (start_time - (hard_deadline - cfg.max_duration)) \div FrameMs

\* the last k frames of the buffer were read after the start transition, and
\* all of them with energy below end_threshold
LastUnder(fr, k) ==
    /\ Len(fr) >= k
    /\ \A i \in (Len(fr) - k + 1)..Len(fr) :
          /\ fr[i].n > StartFrame
          /\ fr[i].rms * ThrScale(noise_vals) < thresholds.end

\* C35: the main loop ends by detection only at a frame read while speaking
\* that completes end_frames consecutive frames below end_threshold, all
\* read after the start transition; a frame read while speaking counts up
\* under_count if it is below end_threshold and sets it to 0 otherwise, and
\* then (also between the two thresholds) the main loop goes on
C35_EndDetection ==
    /\ [][(rpc = "main" /\ rpc' = "hold") =>
            /\ speaking
            /\ nreads' = nreads + 1
            /\ LastUnder(frames', cfg.end_frames)]_vars
    /\ [][(rpc = "main" /\ speaking /\ nreads' = nreads + 1) =>
            LET under == FrameRead.rms * ThrScale(noise_vals) < thresholds.end
            IN /\ under_count' = (IF under THEN under_count + 1 ELSE 0)
               /\ ~under => rpc' = "main"]_vars

\* detection has just fired, after a frame between the two thresholds was
\* read while speaking
C35_Witness ==
    /\ rpc = "hold"
    /\ hold_i = 0
    /\ nreads = frames[Len(frames)].n
    /\ \E i \in 1..Len(frames) :
          /\ frames[i].n > StartFrame
          /\ frames[i].rms * ThrScale(noise_vals) >= thresholds.end
          /\ frames[i].rms * ThrScale(noise_vals) < thresholds.start

\* C36: with post_silence_hold = 0 no frame is read after detection; in
\* general the hold reads no more frames than post_silence_hold spans, and
\* none when the hard deadline has passed
C36_HoldWithinPostSilence ==
    /\ [](cfg.post_silence_hold = 0 => hold_i = 0)
    /\ [](hold_i * FrameMs <= cfg.post_silence_hold + (FrameMs - 1))
    /\ [][(rpc = "hold" /\ nreads' = nreads + 1) => now < hard_deadline]_vars

C39_ActionAgreesWithPause ==
    [][HandleTest =>
        /\ fn_out'.ret.action = "pause" => fn_out'.is_paused
        /\ fn_out'.ret.action = "resume" => ~fn_out'.is_paused
        /\ fn_out'.ret.action = "None" => fn_out'.is_paused = fn_out.is_paused]_vars

====
